---- MODULE Spec2Model ----
(***************************************************************************)
(* httpmcp-rust: the JSON-RPC dispatch engine (transport.rs, jsonrpc.rs,   *)
(* error.rs, handlers/lifecycle.rs) and the broadcast channel that feeds   *)
(* the SSE streams (server.rs, transport.rs handle_post / handle_get).     *)
(*                                                                         *)
(* Conventions.  Option<T> is a set with at most one element: None is {}   *)
(* and Some(x) is {x}.  Result<T, E> is a record with field ok.  JSON      *)
(* values are records whose field names are the JSON member names.         *)
(***************************************************************************)
EXTENDS Integers, Sequences, FiniteSets, TLC

\* ------------------------------------------------------------------ bounds

\* Number of POST /mcp calls of one behaviour (each an independent task).
MaxCalls == 3
\* Number of GET /mcp streaming connections of one behaviour.
MaxSubs == 2
\* Capacity of the broadcast channel.  The build passes 100 (server.rs:259);
\* the model is parametric in it and checks a small channel, so that a
\* receiver can fall more than the capacity behind within MaxCalls publishes.
Capacity == 2

\* Number of registration calls made on one builder before build.
MaxRegs == 3
\* Number of POST /mcp calls of one session of the session specification.
SessionCalls == 2

Calls == 1..MaxCalls
Subs == 1..MaxSubs

\* ------------------------------------------------------ Option and Result

None == {}
Some(x) == {x}
Unwrap(o) == CHOOSE x \in o : TRUE

Ok(v) == [ok |-> TRUE, val |-> v]
Err(e) == [ok |-> FALSE, err |-> e]

\* ------------------------------------------------------------- jsonrpc.rs

PARSE_ERROR == -32700
INVALID_REQUEST == -32600
METHOD_NOT_FOUND == -32601
INVALID_PARAMS == -32602
INTERNAL_ERROR == -32603
RESOURCE_NOT_FOUND == -32002

RequestIdNumber(n) == [Number |-> n]
RequestIdString(s) == [String |-> s]

JsonRpcError(code, message, data) ==
    [code |-> code, message |-> message, data |-> data]

\* Mutant: no message is taken for a notification.
is_notification_never(req) == FALSE

\* JsonRpcRequest::is_notification
is_notification(req) == req.id = None

\* Mutant: the protocol version is not examined.
validate_method_only(req) ==
    IF req.method = ""
    THEN Err(JsonRpcError(INVALID_REQUEST, "Method cannot be empty", None))
    ELSE Ok("unit")

\* JsonRpcRequest::validate
validate(req) ==
    IF req.jsonrpc # "2.0"
    THEN Err(JsonRpcError(INVALID_REQUEST, "Invalid JSON-RPC version", None))
    ELSE IF req.method = ""
    THEN Err(JsonRpcError(INVALID_REQUEST, "Method cannot be empty", None))
    ELSE Ok("unit")

\* JsonRpcResponse::success
success(result, id) ==
    [jsonrpc |-> "2.0", result |-> Some(result), error |-> None, id |-> id]

\* --------------------------------------------------------------- error.rs

McpError(variant, arg) == [variant |-> variant, arg |-> arg]

\* impl From<JsonRpcError> for McpError: the code of the JsonRpcError is
\* dropped, only its message is kept.
FromJsonRpcError(err) == McpError("JsonRpcError", err.message)

\* Mutant: a missing resource is reported with the method-not-found code,
\* like a missing tool or prompt.
to_jsonrpc_error_not_found_as_method(e) ==
    CASE e.variant = "ParseError" -> JsonRpcError(PARSE_ERROR, e.arg, None)
      [] e.variant = "InvalidRequest" -> JsonRpcError(INVALID_REQUEST, e.arg, None)
      [] e.variant = "MethodNotFound" -> JsonRpcError(METHOD_NOT_FOUND, e.arg, None)
      [] e.variant = "InvalidParams" -> JsonRpcError(INVALID_PARAMS, e.arg, None)
      [] e.variant = "InternalError" -> JsonRpcError(INTERNAL_ERROR, e.arg, None)
      [] e.variant = "ResourceNotFound" ->
            JsonRpcError(METHOD_NOT_FOUND, "Resource not found: " \o e.arg,
                         Some([uri |-> e.arg]))
      [] e.variant = "ToolNotFound" ->
            JsonRpcError(METHOD_NOT_FOUND, "Tool not found: " \o e.arg,
                         Some([tool |-> e.arg]))
      [] e.variant = "PromptNotFound" ->
            JsonRpcError(METHOD_NOT_FOUND, "Prompt not found: " \o e.arg,
                         Some([prompt |-> e.arg]))
      [] e.variant = "AuthenticationRequired" ->
            JsonRpcError(INVALID_REQUEST, "Authentication required", None)
      [] e.variant = "AuthorizationFailed" ->
            JsonRpcError(INVALID_REQUEST, "Authorization failed: " \o e.arg, None)
      [] e.variant = "SerializationError" ->
            JsonRpcError(INTERNAL_ERROR, "Serialization error: " \o e.arg, None)
      [] e.variant = "IoError" ->
            JsonRpcError(INTERNAL_ERROR, "IO error: " \o e.arg, None)
      [] e.variant = "JsonRpcError" -> JsonRpcError(INTERNAL_ERROR, e.arg, None)

\* McpError::to_jsonrpc_error
to_jsonrpc_error(e) ==
    CASE e.variant = "ParseError" -> JsonRpcError(PARSE_ERROR, e.arg, None)
      [] e.variant = "InvalidRequest" -> JsonRpcError(INVALID_REQUEST, e.arg, None)
      [] e.variant = "MethodNotFound" -> JsonRpcError(METHOD_NOT_FOUND, e.arg, None)
      [] e.variant = "InvalidParams" -> JsonRpcError(INVALID_PARAMS, e.arg, None)
      [] e.variant = "InternalError" -> JsonRpcError(INTERNAL_ERROR, e.arg, None)
      [] e.variant = "ResourceNotFound" ->
            JsonRpcError(RESOURCE_NOT_FOUND, "Resource not found: " \o e.arg,
                         Some([uri |-> e.arg]))
      [] e.variant = "ToolNotFound" ->
            JsonRpcError(METHOD_NOT_FOUND, "Tool not found: " \o e.arg,
                         Some([tool |-> e.arg]))
      [] e.variant = "PromptNotFound" ->
            JsonRpcError(METHOD_NOT_FOUND, "Prompt not found: " \o e.arg,
                         Some([prompt |-> e.arg]))
      [] e.variant = "AuthenticationRequired" ->
            JsonRpcError(INVALID_REQUEST, "Authentication required", None)
      [] e.variant = "AuthorizationFailed" ->
            JsonRpcError(INVALID_REQUEST, "Authorization failed: " \o e.arg, None)
      [] e.variant = "SerializationError" ->
            JsonRpcError(INTERNAL_ERROR, "Serialization error: " \o e.arg, None)
      [] e.variant = "IoError" ->
            JsonRpcError(INTERNAL_ERROR, "IO error: " \o e.arg, None)
      [] e.variant = "JsonRpcError" -> JsonRpcError(INTERNAL_ERROR, e.arg, None)

BAD_REQUEST == 400
UNAUTHORIZED == 401
FORBIDDEN == 403
NOT_FOUND == 404
INTERNAL_SERVER_ERROR == 500
HTTP_OK == 200
ACCEPTED == 202
NO_CONTENT == 204

\* Mutant: the three registry lookups that fail are bad requests.
status_code_lookup_as_bad_request(e) ==
    CASE e.variant \in {"ParseError", "InvalidRequest", "InvalidParams",
                        "ResourceNotFound", "ToolNotFound", "PromptNotFound"} ->
            BAD_REQUEST
      [] e.variant = "MethodNotFound" -> NOT_FOUND
      [] e.variant = "AuthenticationRequired" -> UNAUTHORIZED
      [] e.variant = "AuthorizationFailed" -> FORBIDDEN
      [] OTHER -> INTERNAL_SERVER_ERROR

\* ResponseError::status_code
status_code(e) ==
    CASE e.variant \in {"ParseError", "InvalidRequest", "InvalidParams"} -> BAD_REQUEST
      [] e.variant \in {"MethodNotFound", "ResourceNotFound", "ToolNotFound",
                        "PromptNotFound"} -> NOT_FOUND
      [] e.variant = "AuthenticationRequired" -> UNAUTHORIZED
      [] e.variant = "AuthorizationFailed" -> FORBIDDEN
      [] OTHER -> INTERNAL_SERVER_ERROR

\* JSON null, as written by json!({"id": null}).
JsonNull == [null |-> "null"]

\* An HTTP response: status and optional JSON body.
HttpResponse(status, body) == [status |-> status, body |-> body]

\* serde serialisation of a JsonRpcResponse as a JSON object: a member whose
\* field is None is omitted (skip_serializing_if), written here as the empty
\* Option; a present member carries the field's value.
ToJson(resp) ==
    [jsonrpc |-> resp.jsonrpc, result |-> resp.result, error |-> resp.error,
     id |-> resp.id]

\* Mutant: the error body also carries a null result member.
error_response_with_null_result(e) ==
    HttpResponse(status_code(e),
                 Some([jsonrpc |-> "2.0", result |-> Some(JsonNull),
                       error |-> Some(to_jsonrpc_error(e)),
                       id |-> Some(JsonNull)]))

\* ResponseError::error_response: the error object under a literal null id.
error_response(e) ==
    HttpResponse(status_code(e),
                 Some([jsonrpc |-> "2.0", result |-> None,
                       error |-> Some(to_jsonrpc_error(e)),
                       id |-> Some(JsonNull)]))

\* -------------------------------------------------------------- server.rs

\* Mutant: the entry of an existing key is kept (entry().or_insert()).
insert_keeping_first(map, key, value) ==
    [k \in DOMAIN map \cup {key} |-> IF k \in DOMAIN map THEN map[k] ELSE value]

\* HashMap::insert: the entry of an existing key is replaced.
insert(map, key, value) ==
    [k \in DOMAIN map \cup {key} |-> IF k = key THEN value ELSE map[k]]

\* HashMap::is_empty
is_empty(map) == DOMAIN map = {}

\* HttpMcpServerBuilder::new: the registries are HashMaps keyed by name / URI
\* (a function from the keys to the registered entries), empty at first.
new ==
    [name |-> "httpmcp-server", version |-> "1.0.0", tools |-> <<>>,
     resources |-> <<>>, prompts |-> <<>>, oauth_config |-> None,
     enable_cors |-> TRUE]

\* metadata.rs ToolMeta::to_tool, ResourceMeta::to_resource,
\* PromptMeta::to_prompt: the descriptor carries the registered identifier.
to_tool(meta, name) == [name |-> name, description |-> meta]
to_resource(meta, uri) == [uri |-> uri, name |-> meta]
to_prompt(meta, name) == [name |-> name, description |-> meta]

\* HttpMcpServerBuilder::tool.  A handler is named by a tag.
tool(b, name, meta, handler) ==
    [b EXCEPT !.tools = insert(@, name, [meta |-> to_tool(meta, name),
                                          handler |-> handler])]

\* HttpMcpServerBuilder::resource.  The list and the read handler of one
\* provider are registered together and share the tag.
resource(b, uri, meta, handler) ==
    [b EXCEPT !.resources = insert(@, uri, [meta |-> to_resource(meta, uri),
                                             list_handler |-> handler,
                                             read_handler |-> handler])]

\* HttpMcpServerBuilder::prompt
prompt(b, name, meta, handler) ==
    [b EXCEPT !.prompts = insert(@, name, [meta |-> to_prompt(meta, name),
                                            handler |-> handler])]

\* HttpMcpServerBuilder::with_oauth
with_oauth(b, client_id, client_secret) ==
    [b EXCEPT !.oauth_config = Some([client_id |-> client_id,
                                     client_secret |-> client_secret])]

\* Mutant: every capability is advertised, whatever was registered.
build_advertising_all(b) ==
    [server_info |-> [name |-> b.name, version |-> b.version],
     capabilities |->
        [logging |-> Some("default"), prompts |-> Some("default"),
         resources |-> Some("default"), tools |-> Some("default")],
     tools |-> b.tools,
     resources |-> b.resources,
     prompts |-> b.prompts,
     oauth_config |-> b.oauth_config,
     enable_cors |-> b.enable_cors]

\* HttpMcpServerBuilder::build: the capability snapshot and the registries.
\* (The broadcast channel it creates is the variable chan.)
build(b) ==
    [server_info |-> [name |-> b.name, version |-> b.version],
     capabilities |->
        [logging |-> Some("default"),
         prompts |-> IF is_empty(b.prompts) THEN None ELSE Some("default"),
         resources |-> IF is_empty(b.resources) THEN None ELSE Some("default"),
         tools |-> IF is_empty(b.tools) THEN None ELSE Some("default")],
     tools |-> b.tools,
     resources |-> b.resources,
     prompts |-> b.prompts,
     oauth_config |-> b.oauth_config,
     enable_cors |-> b.enable_cors]

\* One builder call of the embedding application, as a record, and its effect.
Registration(kind, id, version) ==
    [kind |-> kind, id |-> id, meta |-> "meta " \o version,
     handler |-> "handler " \o version]

Apply(b, reg) ==
    CASE reg.kind = "tool" -> tool(b, reg.id, reg.meta, reg.handler)
      [] reg.kind = "resource" -> resource(b, reg.id, reg.meta, reg.handler)
      [] reg.kind = "prompt" -> prompt(b, reg.id, reg.meta, reg.handler)
      [] reg.kind = "with_oauth" -> with_oauth(b, "id", "secret")

\* The builder after the calls regs, made in this order on a new builder.
RECURSIVE Registered(_)
Registered(regs) ==
    IF regs = <<>> THEN new
    ELSE Apply(Registered(SubSeq(regs, 1, Len(regs) - 1)), regs[Len(regs)])

\* ------------------------------------------------- context.rs, auth/oauth.rs

\* RequestContext::get_bearer_token: the authorization header with its
\* "Bearer " prefix stripped; a header is a sequence of its two parts
\* <<scheme, credentials>>, so that stripping the prefix is a real operation.
get_bearer_token(headers) ==
    IF headers.authorization = None THEN None
    ELSE LET auth == Unwrap(headers.authorization)
         IN IF auth[1] = "Bearer " THEN Some(auth[2]) ELSE None

\* Mutant: any bearer token passes, the empty one too.
validate_token_accepting_empty(headers) ==
    IF get_bearer_token(headers) = None
    THEN Err(McpError("AuthenticationRequired", ""))
    ELSE Ok("unit")

\* OAuthConfig::validate_token
validate_token(headers) ==
    LET token == get_bearer_token(headers)
    IN IF token = None THEN Err(McpError("AuthenticationRequired", ""))
       ELSE IF Unwrap(token) = "" THEN Err(McpError("AuthorizationFailed", "Invalid token"))
       ELSE Ok("unit")

\* The OAuth step of handle_post and handle_get: only when configured.
check_oauth(server, headers) ==
    IF server.oauth_config # None THEN validate_token(headers) ELSE Ok("unit")

\* ----------------------------------------------- handlers and their results

\* Mutant: the last character of the prefix (the dash) is not compared.
StartsWith_year_only(s, prefix) ==
    Len(s) >= Len(prefix) - 1
    /\ SubSeq(s, 1, Len(prefix) - 1) = SubSeq(prefix, 1, Len(prefix) - 1)

\* A string whose prefix the code tests is a sequence of characters.
StartsWith(s, prefix) ==
    Len(s) >= Len(prefix) /\ SubSeq(s, 1, Len(prefix)) = prefix

\* The string such a sequence of characters spells (format!("{}", s)).
RECURSIVE Join(_)
Join(s) == IF s = <<>> THEN "" ELSE Head(s) \o Join(Tail(s))

P2024 == <<"2", "0", "2", "4", "-">>
P2025 == <<"2", "0", "2", "5", "-">>

\* serde_json::from_value into a params struct: Ok when params is an object
\* holding every required member (a missing params is Value::Null: an error).
from_value(params, required) ==
    IF params # None /\ required \subseteq DOMAIN Unwrap(params)
    THEN Ok(Unwrap(params))
    ELSE Err("missing field")

\* What the registered handlers of one call return: the embedding application
\* decides, so each is an input of the call.
\*   tool, prompt: Result of the tool / prompt handler
\*   list:         per provider URI, its list handler succeeds ("ok",
\*                 "paged") or fails
\*   read:         per provider URI, its read handler fails ("fail", or
\*                 "unknown": it rejects a URI it does not recognise),
\*                 returns nothing ("empty") or returns its contents
\*   order, tool_order, prompt_order:
\*                 the iteration orders of the three HashMaps
\* A HashMap<String, Value> is the set of its entries; EmptyMap is
\* HashMap::default().
EmptyMap == {}
SomeArguments == {<<"a", 2>>, <<"b", 1>>}

\* A tool returns {"result": 5}, or, given arguments, the number of them.
ToolValues(arguments) ==
    {[result |-> 5]} \cup {[result |-> Cardinality(arguments)] : x \in arguments}
Boom == McpError("InternalError", "boom")

\* serde_json::Value::to_string of a tool's return value.
to_string(v) == "{\"result\":" \o ToString(v.result) \o "}"

\* The orders in which a HashMap with key set S may iterate.
Orders(S) ==
    {f \in [1..Cardinality(S) -> S] : \A x \in S : \E i \in DOMAIN f : f[i] = x}

\* What the read handler of `provider` returns for a URI it recognises, and
\* what its list handler returns.
Contents(provider, uri) ==
    [uri |-> uri, text |-> Some("content of " \o uri \o " by " \o provider)]
Descriptor(uri) == [uri |-> uri, name |-> uri]

\* What the list handler of `provider` returns when it succeeds, a
\* (Vec<Resource>, Option<String>): its own descriptor and no next cursor
\* ("ok"), or a descriptor that every provider knows, its own, and a next
\* cursor ("paged").
SharedUri == "file:///shared"
Listing(provider, outcome) ==
    IF outcome = "paged"
    THEN [resources |-> <<Descriptor(SharedUri), Descriptor(provider)>>,
          next_cursor |-> Some("page 2")]
    ELSE [resources |-> <<Descriptor(provider)>>, next_cursor |-> None]

OkPrompt == Ok([description |-> None, messages |-> <<"hello">>])

\* The members of McpError (error.rs:5-45), and one error of each.
Variants ==
    {"ParseError", "InvalidRequest", "MethodNotFound", "InvalidParams",
     "InternalError", "ResourceNotFound", "ToolNotFound", "PromptNotFound",
     "AuthenticationRequired", "AuthorizationFailed", "SerializationError",
     "IoError", "JsonRpcError"}
Errors == {McpError(v, "x") : v \in Variants}

\* What a registered tool handler may return: the handler tagged "failing"
\* fails with any member of McpError, every other one returns a value or
\* fails with an internal error.
Failing == "handler failing"
HandlerOutcomes(handler, arguments) ==
    IF handler = Failing THEN {Err(e) : e \in Errors}
    ELSE {Ok(v) : v \in ToolValues(arguments)} \cup {Err(Boom)}

\* The optional member arguments of ToolsCallParams.
arguments(params) ==
    IF "arguments" \in DOMAIN params THEN Some(params.arguments) ELSE None

\* Option::unwrap_or_default on an Option<HashMap>.
unwrap_or_default(option) == IF option = None THEN EmptyMap ELSE Unwrap(option)

\* The outcomes of the handlers that the call `req` can invoke; a handler
\* the call never invokes has no outcome to choose.
HandlerEnvs(server, req) ==
    LET any(S) == {CHOOSE f \in Orders(S) : TRUE}
        uris == DOMAIN server.resources
        method == req.method
        named == from_value(req.params, {"name"})
    IN [tool : IF method = "tools/call" /\ named.ok
                  /\ named.val.name \in DOMAIN server.tools
               THEN HandlerOutcomes(server.tools[named.val.name].handler,
                                    unwrap_or_default(arguments(named.val)))
               ELSE {Ok([result |-> 5])},
        prompt : IF method = "prompts/get" THEN {OkPrompt, Err(Boom)} ELSE {OkPrompt},
        list : IF method = "resources/list"
               THEN [uris -> {"ok", "paged", "fail"}] ELSE {[u \in uris |-> "ok"]},
        read : IF method = "resources/read"
               THEN [uris -> {"found", "empty", "fail", "unknown"}]
               ELSE {[u \in uris |-> "empty"]},
        order : IF method \in {"resources/list", "resources/read"}
                THEN Orders(uris) ELSE any(uris),
        tool_order : IF method = "tools/list"
                     THEN Orders(DOMAIN server.tools) ELSE any(DOMAIN server.tools),
        prompt_order : IF method = "prompts/list"
                       THEN Orders(DOMAIN server.prompts) ELSE any(DOMAIN server.prompts)]

\* A result together with the registered handlers that were awaited to
\* compute it, in the order of their invocation.
Invoking(result, handlers) == result @@ [invoked |-> handlers]
Invoked(result) == IF "invoked" \in DOMAIN result THEN result.invoked ELSE <<>>

\* A result together with the first argument each awaited handler was
\* called with (the argument map of a tool, the cursor of a list handler,
\* the URI of a read handler, the name of a prompt),
\* in the order of the invocations.
Passing(result, inputs) == result @@ [passed |-> inputs]
Passed(result) == IF "passed" \in DOMAIN result THEN result.passed ELSE <<>>

\* handlers/lifecycle.rs handle_initialize
handle_initialize(req, server_info, capabilities) ==
    LET params == from_value(req.params, {"protocolVersion", "capabilities", "clientInfo"})
    IN IF ~params.ok
       THEN Err(McpError("InvalidParams", "Invalid initialize params: " \o params.err))
       ELSE IF ~StartsWith(params.val.protocolVersion, P2024)
               /\ ~StartsWith(params.val.protocolVersion, P2025)
       THEN Err(McpError("InvalidRequest", "Unsupported protocol version: "
                                            \o Join(params.val.protocolVersion)))
       ELSE Ok(success([protocolVersion |-> params.val.protocolVersion,
                        capabilities |-> capabilities,
                        serverInfo |-> server_info], req.id))

EmptyObject == [object |-> "{}"]

\* handlers/lifecycle.rs handle_ping
handle_ping(req) == Ok(success(EmptyObject, req.id))

handle_notifications_initialized(req) == Ok(success(EmptyObject, req.id))

\* The outcomes of a provider's handler that are an Err, and the error a
\* read handler returns: an internal error, or ResourceNotFound for a URI it
\* does not recognise (examples/full_server.rs:56).
Failures == {"fail", "unknown"}
ReadError(outcome, uri) ==
    IF outcome = "unknown" THEN McpError("ResourceNotFound", uri) ELSE Boom

\* The ? of a handler await inside a provider loop: the first provider in
\* iteration order whose handler fails ends the loop with its error.
FirstFailure(outcome, order) ==
    {i \in DOMAIN order : outcome[order[i]] \in Failures}

\* Mutant: the loop goes on to the remaining providers after a failure.
Visited_past_failure(outcome, order) == order

\* The providers whose handler the loop awaited: all of them, or those up to
\* the first failure.
Visited(outcome, order) ==
    LET failed == FirstFailure(outcome, order)
        last == IF failed = {} THEN Len(order)
                ELSE CHOOSE i \in failed : \A j \in failed : i <= j
    IN SubSeq(order, 1, last)

\* Vec::extend over the providers in iteration order.
RECURSIVE Concat(_)
Concat(parts) ==
    IF parts = <<>> THEN <<>> ELSE Head(parts) \o Concat(Tail(parts))

\* from_value(..).unwrap_or(ResourcesListParams { cursor: None }): the cursor
\* when params is an object whose member cursor is a string, else no cursor
\* (missing params, no member, or a member of another type).
ResourcesListParams(params) ==
    IF params # None /\ "cursor" \in DOMAIN Unwrap(params)
       /\ "string" \in DOMAIN Unwrap(params).cursor
    THEN [cursor |-> Some(Unwrap(params).cursor.string)]
    ELSE [cursor |-> None]

\* Mutant: the next cursor of the last provider is handed on to the caller.
handle_resources_list_paginating(req, server, env) ==
    LET params == ResourcesListParams(req.params)
        visited == Visited(env.list, env.order)
        invoked == [i \in DOMAIN visited |->
                       <<"list", visited[i], server.resources[visited[i]].list_handler>>]
        passed == [i \in DOMAIN visited |-> params.cursor]
    IN IF FirstFailure(env.list, env.order) # {}
       THEN Passing(Invoking(Err(Boom), invoked), passed)
       ELSE LET one(uri) == Listing(uri, env.list[uri])
            IN Passing(Invoking(
                 Ok(success([resources |->
                                Concat([i \in DOMAIN env.order |->
                                           one(env.order[i]).resources]),
                             nextCursor |-> IF env.order = <<>> THEN None
                                            ELSE one(env.order[Len(env.order)]).next_cursor],
                            req.id)),
                 invoked), passed)

handle_resources_list(req, server, env) ==
    LET params == ResourcesListParams(req.params)
        visited == Visited(env.list, env.order)
        invoked == [i \in DOMAIN visited |->
                       <<"list", visited[i], server.resources[visited[i]].list_handler>>]
        passed == [i \in DOMAIN visited |-> params.cursor]
    IN IF FirstFailure(env.list, env.order) # {}
       THEN Passing(Invoking(Err(Boom), invoked), passed)
       ELSE LET one(uri) == Listing(uri, env.list[uri])
            IN Passing(Invoking(
                 Ok(success([resources |->
                                Concat([i \in DOMAIN env.order |->
                                           one(env.order[i]).resources]),
                             nextCursor |-> None],
                            req.id)),
                 invoked), passed)

\* Mutant: only the provider that comes first in the iteration is asked.
handle_resources_read_first_only(req, server, env) ==
    LET params == from_value(req.params, {"uri"})
    IN IF ~params.ok
       THEN Err(McpError("InvalidParams", "Invalid params: " \o params.err))
       ELSE LET first == IF env.order = <<>> THEN <<>> ELSE <<env.order[1]>>
                invoked == [i \in DOMAIN first |->
                    <<"read", first[i], server.resources[first[i]].read_handler>>]
                passed == [i \in DOMAIN first |-> params.val.uri]
                contents == IF first # <<>> /\ env.read[first[1]] = "found"
                            THEN <<Contents(first[1], params.val.uri)>> ELSE <<>>
            IN IF first # <<>> /\ env.read[first[1]] \in Failures
               THEN Passing(Invoking(Err(ReadError(env.read[first[1]], params.val.uri)),
                                     invoked), passed)
               ELSE IF contents = <<>>
               THEN Passing(Invoking(Err(McpError("ResourceNotFound", params.val.uri)),
                                     invoked), passed)
               ELSE Passing(Invoking(Ok(success([contents |-> contents], req.id)),
                                     invoked), passed)

\* Mutant: a provider whose read handler fails is skipped and the contents
\* of the others are returned.
handle_resources_read_skipping_failures(req, server, env) ==
    LET params == from_value(req.params, {"uri"})
    IN IF ~params.ok
       THEN Err(McpError("InvalidParams", "Invalid params: " \o params.err))
       ELSE LET invoked == [i \in DOMAIN env.order |->
                    <<"read", env.order[i], server.resources[env.order[i]].read_handler>>]
                passed == [i \in DOMAIN env.order |-> params.val.uri]
                one(p) == IF env.read[p] = "found"
                          THEN <<Contents(p, params.val.uri)>> ELSE <<>>
                contents == Concat([i \in DOMAIN env.order |-> one(env.order[i])])
            IN IF contents = <<>>
               THEN Passing(Invoking(Err(McpError("ResourceNotFound", params.val.uri)),
                                     invoked), passed)
               ELSE Passing(Invoking(Ok(success([contents |-> contents], req.id)),
                                     invoked), passed)

handle_resources_read(req, server, env) ==
    LET params == from_value(req.params, {"uri"})
    IN IF ~params.ok
       THEN Err(McpError("InvalidParams", "Invalid params: " \o params.err))
       ELSE LET visited == Visited(env.read, env.order)
                invoked == [i \in DOMAIN visited |->
                    <<"read", visited[i], server.resources[visited[i]].read_handler>>]
                passed == [i \in DOMAIN visited |-> params.val.uri]
            IN IF FirstFailure(env.read, env.order) # {}
               THEN Passing(Invoking(
                      Err(ReadError(env.read[visited[Len(visited)]], params.val.uri)),
                      invoked), passed)
               ELSE LET one(p) == IF env.read[p] = "found"
                                  THEN <<Contents(p, params.val.uri)>> ELSE <<>>
                        contents == Concat([i \in DOMAIN env.order |-> one(env.order[i])])
                    IN IF contents = <<>>
                       THEN Passing(Invoking(Err(McpError("ResourceNotFound",
                                                             params.val.uri)),
                                             invoked), passed)
                       ELSE Passing(Invoking(Ok(success([contents |-> contents],
                                                               req.id)),
                                             invoked), passed)

handle_resources_templates(req) ==
    Ok(success([resourceTemplates |-> <<>>], req.id))

handle_resources_subscribe(req) == Ok(success(JsonNull, req.id))

\* Mutant: the iteration visits every entry twice.
Metas_with_repeats(map, order) ==
    [i \in DOMAIN (order \o order) |-> map[(order \o order)[i]].meta]

\* The values of a HashMap, mapped to their descriptors, in iteration order.
Metas(map, order) == [i \in DOMAIN order |-> map[order[i]].meta]

handle_tools_list(req, server, env) ==
    Ok(success([tools |-> Metas(server.tools, env.tool_order), nextCursor |-> None],
               req.id))

\* Mutant: an unregistered tool is reported as an unknown method, without
\* the data naming the tool.
handle_tools_call_plain_not_found(req, server, env) ==
    LET params == from_value(req.params, {"name"})
    IN IF ~params.ok
       THEN Err(McpError("InvalidParams", "Invalid params: " \o params.err))
       ELSE IF params.val.name \notin DOMAIN server.tools
       THEN Err(McpError("MethodNotFound", params.val.name))
       ELSE LET registered == server.tools[params.val.name]
                invoked == <<<<"tool", params.val.name, registered.handler>>>>
                passed == <<unwrap_or_default(arguments(params.val))>>
            IN IF ~env.tool.ok
               THEN Passing(Invoking(Err(env.tool.err), invoked), passed)
               ELSE Passing(Invoking(
                      Ok(success([content |-> <<[type |-> "text",
                                                 text |-> to_string(env.tool.val)]>>,
                                  isError |-> None], req.id)),
                      invoked), passed)

\* Mutant: the registry is consulted with whatever name can be found before
\* the params are judged.
handle_tools_call_lookup_first(req, server, env) ==
    LET params == from_value(req.params, {"name"})
        name == IF params.ok THEN params.val.name ELSE ""
    IN IF name \notin DOMAIN server.tools
       THEN Err(McpError("ToolNotFound", name))
       ELSE LET registered == server.tools[name]
                invoked == <<<<"tool", name, registered.handler>>>>
                passed == <<unwrap_or_default(arguments(params.val))>>
            IN IF ~env.tool.ok
               THEN Passing(Invoking(Err(env.tool.err), invoked), passed)
               ELSE Passing(Invoking(
                      Ok(success([content |-> <<[type |-> "text",
                                                 text |-> to_string(env.tool.val)]>>,
                                  isError |-> None], req.id)),
                      invoked), passed)

\* Mutant: the handler is always called with an empty argument map.
handle_tools_call_dropping_arguments(req, server, env) ==
    LET params == from_value(req.params, {"name"})
    IN IF ~params.ok
       THEN Err(McpError("InvalidParams", "Invalid params: " \o params.err))
       ELSE IF params.val.name \notin DOMAIN server.tools
       THEN Err(McpError("ToolNotFound", params.val.name))
       ELSE LET registered == server.tools[params.val.name]
                invoked == <<<<"tool", params.val.name, registered.handler>>>>
                passed == <<EmptyMap>>
            IN IF ~env.tool.ok
               THEN Passing(Invoking(Err(env.tool.err), invoked), passed)
               ELSE Passing(Invoking(
                      Ok(success([content |-> <<[type |-> "text",
                                                 text |-> to_string(env.tool.val)]>>,
                                  isError |-> None], req.id)),
                      invoked), passed)

handle_tools_call(req, server, env) ==
    LET params == from_value(req.params, {"name"})
    IN IF ~params.ok
       THEN Err(McpError("InvalidParams", "Invalid params: " \o params.err))
       ELSE IF params.val.name \notin DOMAIN server.tools
       THEN Err(McpError("ToolNotFound", params.val.name))
       ELSE LET registered == server.tools[params.val.name]
                invoked == <<<<"tool", params.val.name, registered.handler>>>>
                passed == <<unwrap_or_default(arguments(params.val))>>
            IN IF ~env.tool.ok
               THEN Passing(Invoking(Err(env.tool.err), invoked), passed)
               ELSE Passing(Invoking(
                      Ok(success([content |-> <<[type |-> "text",
                                                 text |-> to_string(env.tool.val)]>>,
                                  isError |-> None], req.id)),
                      invoked), passed)

handle_prompts_list(req, server, env) ==
    Ok(success([prompts |-> Metas(server.prompts, env.prompt_order),
                nextCursor |-> None], req.id))

handle_prompts_get(req, server, env) ==
    LET params == from_value(req.params, {"name"})
    IN IF ~params.ok
       THEN Err(McpError("InvalidParams", "Invalid params: " \o params.err))
       ELSE IF params.val.name \notin DOMAIN server.prompts
       THEN Err(McpError("PromptNotFound", params.val.name))
       ELSE LET registered == server.prompts[params.val.name]
                invoked == <<<<"prompt", params.val.name, registered.handler>>>>
                passed == <<params.val.name>>
            IN IF ~env.prompt.ok
               THEN Passing(Invoking(Err(env.prompt.err), invoked), passed)
               ELSE Passing(Invoking(Ok(success(env.prompt.val, req.id)), invoked),
                            passed)

LogLevels == {"debug", "info", "warning", "error"}

handle_logging_set_level(req) ==
    LET params == from_value(req.params, {"level"})
    IN IF ~params.ok
       THEN Err(McpError("InvalidParams", "Invalid params: " \o params.err))
       ELSE IF params.val.level \notin LogLevels
       THEN Err(McpError("InvalidParams", "Invalid params: unknown variant"))
       ELSE Ok(success(EmptyObject, req.id))

\* Mutant: a method outside the table is acknowledged with an empty result.
route_request_lenient(req, server, env) ==
    CASE req.method = "initialize" ->
            handle_initialize(req, server.server_info, server.capabilities)
      [] req.method = "ping" -> handle_ping(req)
      [] req.method = "notifications/initialized" -> handle_notifications_initialized(req)
      [] req.method = "resources/list" -> handle_resources_list(req, server, env)
      [] req.method = "resources/read" -> handle_resources_read(req, server, env)
      [] req.method = "resources/templates/list" -> handle_resources_templates(req)
      [] req.method = "resources/subscribe" -> handle_resources_subscribe(req)
      [] req.method = "tools/list" -> handle_tools_list(req, server, env)
      [] req.method = "tools/call" -> handle_tools_call(req, server, env)
      [] req.method = "prompts/list" -> handle_prompts_list(req, server, env)
      [] req.method = "prompts/get" -> handle_prompts_get(req, server, env)
      [] req.method = "logging/setLevel" -> handle_logging_set_level(req)
      [] OTHER -> Ok(success(EmptyObject, req.id))

\* route_request: the method table.
route_request(req, server, env) ==
    CASE req.method = "initialize" ->
            handle_initialize(req, server.server_info, server.capabilities)
      [] req.method = "ping" -> handle_ping(req)
      [] req.method = "notifications/initialized" -> handle_notifications_initialized(req)
      [] req.method = "resources/list" -> handle_resources_list(req, server, env)
      [] req.method = "resources/read" -> handle_resources_read(req, server, env)
      [] req.method = "resources/templates/list" -> handle_resources_templates(req)
      [] req.method = "resources/subscribe" -> handle_resources_subscribe(req)
      [] req.method = "tools/list" -> handle_tools_list(req, server, env)
      [] req.method = "tools/call" -> handle_tools_call(req, server, env)
      [] req.method = "prompts/list" -> handle_prompts_list(req, server, env)
      [] req.method = "prompts/get" -> handle_prompts_get(req, server, env)
      [] req.method = "logging/setLevel" -> handle_logging_set_level(req)
      [] OTHER -> Err(McpError("MethodNotFound", req.method))

\* ------------------------------------- tokio::sync::broadcast, as used here

\* Mutant: the first receiver is kept alive beside the sender.
channel_keeping_first_receiver == [log |-> <<>>, rx_cnt |-> 1]

\* broadcast::channel(capacity), its first receiver dropped at once
\* (let (response_tx, _) = ...).  log holds every value ever sent, oldest
\* first; the channel retains the last Capacity of them.
channel == [log |-> <<>>, rx_cnt |-> 0]

\* Sender::receiver_count
receiver_count(ch) == ch.rx_cnt

\* Sender::send: fails, handing the value back, when no receiver exists;
\* otherwise stores the value at the tail (overwriting the oldest slot of a
\* full buffer, never waiting) and returns the number of receivers.
send(ch, value) ==
    IF ch.rx_cnt = 0
    THEN [chan |-> ch, result |-> Err(value)]
    ELSE [chan |-> [ch EXCEPT !.log = Append(@, value)], result |-> Ok(ch.rx_cnt)]

\* Mutant: a bounded queue whose sender waits for the slowest receiver.
send_waits_for_room(ch, rxs) == \A rx \in rxs : Len(ch.log) - rx.next < Capacity

\* Sender::send is synchronous (it is not awaited at transport.rs:186): it is
\* ready whatever the receivers rxs have or have not consumed.
send_ready(ch, rxs) == TRUE

\* Mutant: the new receiver starts at the oldest retained value, replaying
\* the backlog.
subscribe_from_oldest(ch) ==
    [chan |-> [ch EXCEPT !.rx_cnt = @ + 1],
     rx |-> [next |-> IF Len(ch.log) > Capacity THEN Len(ch.log) - Capacity ELSE 0]]

\* Mutant: the new receiver starts one past the tail, missing the next value.
subscribe_past_tail(ch) ==
    [chan |-> [ch EXCEPT !.rx_cnt = @ + 1], rx |-> [next |-> Len(ch.log) + 1]]

\* Sender::subscribe: the new receiver starts at the tail.
subscribe(ch) ==
    [chan |-> [ch EXCEPT !.rx_cnt = @ + 1], rx |-> [next |-> Len(ch.log)]]

\* Receiver::recv has a value or an error ready (otherwise it waits).
recv_ready(ch, rx) == rx.next < Len(ch.log)

\* Mutant: the value is handed out without advancing the receiver.
recv_without_advance(ch, rx) ==
    IF rx.next < Len(ch.log) - Capacity
    THEN [result |-> Err([Lagged |-> Len(ch.log) - Capacity - rx.next]),
          rx |-> [next |-> Len(ch.log) - Capacity], pos |-> 0]
    ELSE [result |-> Ok(ch.log[rx.next + 1]), rx |-> rx, pos |-> rx.next + 1]

\* Mutant: the newest value is handed out instead of the oldest unread one.
recv_newest(ch, rx) ==
    IF rx.next < Len(ch.log) - Capacity
    THEN [result |-> Err([Lagged |-> Len(ch.log) - Capacity - rx.next]),
          rx |-> [next |-> Len(ch.log) - Capacity], pos |-> 0]
    ELSE [result |-> Ok(ch.log[Len(ch.log)]),
          rx |-> [next |-> rx.next + 1], pos |-> Len(ch.log)]

\* Receiver::recv when ready: Lagged(n) if the value at next was overwritten
\* (the receiver then continues at the oldest retained value), else the value.
recv(ch, rx) ==
    IF rx.next < Len(ch.log) - Capacity
    THEN [result |-> Err([Lagged |-> Len(ch.log) - Capacity - rx.next]),
          rx |-> [next |-> Len(ch.log) - Capacity], pos |-> 0]
    ELSE [result |-> Ok(ch.log[rx.next + 1]),
          rx |-> [next |-> rx.next + 1], pos |-> rx.next + 1]

\* Mutant: dropping one receiver closes the channel for all of them.
drop_receiver_closing_channel(ch) == [ch EXCEPT !.rx_cnt = 0]

\* Drop for Receiver
drop_receiver(ch) == [ch EXCEPT !.rx_cnt = @ - 1]

\* ------------------------------------------------------------------ state

VARIABLES
    builder,  \* the HttpMcpServerBuilder until build consumes it, with the
              \* history of the calls made on it
    server,   \* the built HttpMcpServer (registries, capabilities, oauth)
    chan,     \* server.response_tx: the broadcast channel
    calls,    \* per POST /mcp call: the position and locals of handle_post
    subs      \* per GET /mcp connection: the state of handle_get's stream

vars == <<builder, server, chan, calls, subs>>

\* A call not yet received.  Fields:
\*   pc       "idle" | "routing" (awaiting route_request) | "counted"
\*            (subscriber_count read, send not yet called) | "done" |
\*            "cancelled" (the future was dropped while awaiting)
\*   req      Option: the HTTP request (JSON-RPC body and headers)
\*   response Option: the JsonRpcResponse route_request returned
\*   count    subscriber_count as read at line 181
\*   sent     Option: what response_tx.send returned (the code discards it)
\*   pos      history: the channel position of the published value, 0 if none
\*   http     Option: the HTTP response written to the caller
\*   env      history: what the registered handlers returned to this call
\*   invoked  history: the registered handlers this call awaited, in order
\*   passed   history: the first argument each of them was called with
IdleCall ==
    [pc |-> "idle", req |-> None, response |-> None, count |-> 0,
     sent |-> None, pos |-> 0, http |-> None, env |-> None, invoked |-> <<>>,
     passed |-> <<>>]

\* A connection not yet opened.  Fields:
\*   state   "none" | "open" | "ended" (recv returned an error, the stream
\*           finished) | "closed" (the client went away, the stream was
\*           dropped) | "refused" (the OAuth check failed)
\*   rx      the broadcast Receiver
\*   events  the SSE events yielded on the stream, in order
\*   got     history: the channel position each event was read from
\*   start   history: the channel tail when the receiver subscribed
\*   req     history: the headers of the GET request
NoSub ==
    [state |-> "none", rx |-> [next |-> 0], events |-> <<>>, got |-> <<>>,
     start |-> 0, req |-> None]

\* accept_sse of handle_post: the accept header, a list of media types,
\* names text/event-stream.
accept_sse(headers) ==
    headers.accept # None
    /\ \E i \in DOMAIN Unwrap(headers.accept) :
          Unwrap(headers.accept)[i] = "text/event-stream"

\* sse::Event::Data(sse::Data::new(json)): data only, no id and no event name.
SseData(json) == [data |-> json, id |-> None, event |-> None]

Finish(call, http) == [call EXCEPT !.pc = "done", !.http = Some(http)]

\* Mutant: a session flag; every method but initialize and ping is refused
\* until an initialize has succeeded.
StartPost_after_handshake(c, r) ==
    /\ builder.self = None
    /\ calls[c].pc = "idle"
    /\ \A d \in Calls : d < c => calls[d].pc # "idle"
    /\ LET auth == check_oauth(server, r.headers)
           valid == validate(r.body)
           call == [calls[c] EXCEPT !.req = Some(r)]
           initialized == \E d \in Calls :
                             /\ calls[d].pc = "done" /\ calls[d].response # None
                             /\ Unwrap(calls[d].req).body.method = "initialize"
       IN calls' = [calls EXCEPT ![c] =
             IF ~auth.ok THEN Finish(call, error_response(auth.err))
             ELSE IF ~valid.ok
             THEN Finish(call, error_response(FromJsonRpcError(valid.err)))
             ELSE IF r.body.method \notin {"initialize", "ping"} /\ ~initialized
             THEN Finish(call, error_response(McpError("InvalidRequest",
                                                       "Server not initialized")))
             ELSE [call EXCEPT !.pc = "routing"]]
    /\ UNCHANGED <<builder, server, chan, subs>>

\* handle_post, lines 142-164 up to the await of route_request: the OAuth
\* check and the structural validation, each returning early through ?.
\* Mutant: the structural validation runs before the OAuth check.
StartPost_validating_first(c, r) ==
    /\ builder.self = None
    /\ calls[c].pc = "idle"
    /\ \A d \in Calls : d < c => calls[d].pc # "idle"
    /\ LET auth == check_oauth(server, r.headers)
           valid == validate(r.body)
           call == [calls[c] EXCEPT !.req = Some(r)]
       IN calls' = [calls EXCEPT ![c] =
             IF ~valid.ok
             THEN Finish(call, error_response(FromJsonRpcError(valid.err)))
             ELSE IF ~auth.ok THEN Finish(call, error_response(auth.err))
             ELSE [call EXCEPT !.pc = "routing"]]
    /\ UNCHANGED <<builder, server, chan, subs>>

\* Mutant: a notification is acknowledged at once and never routed.
StartPost_dropping_notifications(c, r) ==
    /\ builder.self = None
    /\ calls[c].pc = "idle"
    /\ \A d \in Calls : d < c => calls[d].pc # "idle"
    /\ LET auth == check_oauth(server, r.headers)
           valid == validate(r.body)
           call == [calls[c] EXCEPT !.req = Some(r)]
       IN calls' = [calls EXCEPT ![c] =
             IF ~auth.ok THEN Finish(call, error_response(auth.err))
             ELSE IF ~valid.ok
             THEN Finish(call, error_response(FromJsonRpcError(valid.err)))
             ELSE IF is_notification(r.body)
             THEN Finish(call, HttpResponse(NO_CONTENT, None))
             ELSE [call EXCEPT !.pc = "routing"]]
    /\ UNCHANGED <<builder, server, chan, subs>>

StartPost(c, r) ==
    /\ builder.self = None                              \* the server is built
    /\ calls[c].pc = "idle"
    /\ \A d \in Calls : d < c => calls[d].pc # "idle"   \* numbered by arrival
    /\ LET auth == check_oauth(server, r.headers)
           valid == validate(r.body)
           call == [calls[c] EXCEPT !.req = Some(r)]
       IN calls' = [calls EXCEPT ![c] =
             IF ~auth.ok THEN Finish(call, error_response(auth.err))
             ELSE IF ~valid.ok
             THEN Finish(call, error_response(FromJsonRpcError(valid.err)))
             ELSE [call EXCEPT !.pc = "routing"]]
    /\ UNCHANGED <<builder, server, chan, subs>>

\* Mutant: the error of a streaming-preferred request is sent to the
\* subscribers as an error response and the caller is told "accepted".
RouteRequest_streaming_errors(c) ==
    /\ calls[c].pc = "routing"
    /\ \E env \in HandlerEnvs(server, Unwrap(calls[c].req).body) :
       LET r == Unwrap(calls[c].req)
           routed == route_request(r.body, server, env)
           subscriber_count == receiver_count(chan)
           awaited == [calls[c] EXCEPT !.env = Some(env), !.invoked = Invoked(routed),
                                      !.passed = Passed(routed)]
           streamed == accept_sse(r.headers) /\ subscriber_count > 0
           failure == [jsonrpc |-> "2.0", result |-> None,
                       error |-> Some(to_jsonrpc_error(routed.err)), id |-> r.body.id]
       IN IF ~routed.ok /\ streamed
          THEN /\ chan' = send(chan, failure).chan
               /\ calls' = [calls EXCEPT ![c] =
                     Finish([awaited EXCEPT !.pos = Len(chan.log) + 1],
                            HttpResponse(ACCEPTED, None))]
          ELSE /\ chan' = chan
               /\ calls' = [calls EXCEPT ![c] =
                     IF ~routed.ok THEN Finish(awaited, error_response(routed.err))
                     ELSE LET call == [awaited EXCEPT !.response = Some(routed.val)]
                          IN IF is_notification(r.body)
                             THEN Finish(call, HttpResponse(NO_CONTENT, None))
                             ELSE IF streamed
                             THEN [call EXCEPT !.pc = "counted",
                                               !.count = subscriber_count]
                             ELSE Finish([call EXCEPT !.count = subscriber_count],
                                         HttpResponse(HTTP_OK,
                                                      Some(ToJson(routed.val))))]
    /\ UNCHANGED <<builder, server, subs>>

\* handle_post, lines 164-203 from the return of route_request up to the
\* read of receiver_count: an error returns through ?, a notification gets
\* 204, a non-streaming caller (or one finding no subscriber) gets the JSON.
RouteRequest(c) ==
    /\ calls[c].pc = "routing"
    /\ \E env \in HandlerEnvs(server, Unwrap(calls[c].req).body) :
       LET r == Unwrap(calls[c].req)
           routed == route_request(r.body, server, env)
           subscriber_count == receiver_count(chan)
           awaited == [calls[c] EXCEPT !.env = Some(env), !.invoked = Invoked(routed),
                                      !.passed = Passed(routed)]
       IN calls' = [calls EXCEPT ![c] =
             IF ~routed.ok THEN Finish(awaited, error_response(routed.err))
             ELSE LET call == [awaited EXCEPT !.response = Some(routed.val)]
                  IN IF is_notification(r.body)
                     THEN Finish(call, HttpResponse(NO_CONTENT, None))
                     ELSE IF accept_sse(r.headers) /\ subscriber_count > 0
                     THEN [call EXCEPT !.pc = "counted", !.count = subscriber_count]
                     ELSE Finish([call EXCEPT !.count = subscriber_count],
                                 HttpResponse(HTTP_OK, Some(ToJson(routed.val))))]
    /\ UNCHANGED <<builder, server, chan, subs>>

\* handle_post, lines 186-191: let _ = response_tx.send(response), then 202.
Publish(c) ==
    /\ calls[c].pc = "counted"
    /\ send_ready(chan, {subs[s].rx : s \in {t \in Subs : subs[t].state = "open"}})
    /\ LET s == send(chan, Unwrap(calls[c].response))
       IN /\ chan' = s.chan
          /\ calls' = [calls EXCEPT ![c] =
                Finish([@ EXCEPT !.sent = Some(s.result),
                                 !.pos = IF s.result.ok THEN Len(s.chan.log) ELSE 0],
                       HttpResponse(ACCEPTED, None))]
    /\ UNCHANGED <<builder, server, subs>>

\* Mutant: the receiver is created before the OAuth check and kept by a
\* refused request.
Subscribe_before_auth(s, headers) ==
    /\ builder.self = None
    /\ subs[s].state = "none"
    /\ \A t \in Subs : t < s => subs[t].state # "none"
    /\ LET auth == check_oauth(server, headers)
           sub == subscribe(chan)
       IN /\ subs' = [subs EXCEPT ![s] =
                IF ~auth.ok
                THEN [@ EXCEPT !.state = "refused", !.req = Some(headers)]
                ELSE [@ EXCEPT !.state = "open", !.rx = sub.rx,
                               !.start = Len(chan.log), !.req = Some(headers)]]
          /\ chan' = sub.chan
    /\ UNCHANGED <<builder, server, calls>>

\* handle_get: the OAuth check, then response_tx.subscribe() and the stream.
Subscribe(s, headers) ==
    /\ builder.self = None                              \* the server is built
    /\ subs[s].state = "none"
    /\ \A t \in Subs : t < s => subs[t].state # "none"   \* numbered by arrival
    /\ LET auth == check_oauth(server, headers)
           _last_event_id == headers.last_event_id      \* read and never used
           sub == subscribe(chan)
       IN IF ~auth.ok
          THEN /\ subs' = [subs EXCEPT ![s] =
                    [@ EXCEPT !.state = "refused", !.req = Some(headers)]]
               /\ chan' = chan
          ELSE /\ subs' = [subs EXCEPT ![s] =
                    [@ EXCEPT !.state = "open", !.rx = sub.rx,
                              !.start = Len(chan.log), !.req = Some(headers)]]
               /\ chan' = sub.chan
    /\ UNCHANGED <<builder, server, calls>>

\* Mutant: a lagged stream skips the lost values and goes on.
Recv_resuming_after_lag(s) ==
    /\ subs[s].state = "open"
    /\ recv_ready(chan, subs[s].rx)
    /\ LET r == recv(chan, subs[s].rx)
       IN IF r.result.ok
          THEN subs' = [subs EXCEPT ![s] =
                    [@ EXCEPT !.rx = r.rx,
                              !.events = Append(@, SseData(ToJson(r.result.val))),
                              !.got = Append(@, r.pos)]]
          ELSE subs' = [subs EXCEPT ![s] = [@ EXCEPT !.rx = r.rx]]
    /\ UNCHANGED <<builder, server, chan, calls>>

\* One turn of the stream's loop, while let Ok(response) = rx.recv().await:
\* a value is serialised and yielded; an error (Lagged) ends the loop, the
\* stream finishes and the receiver is dropped with it.
Recv(s) ==
    /\ subs[s].state = "open"
    /\ recv_ready(chan, subs[s].rx)
    /\ LET r == recv(chan, subs[s].rx)
       IN IF r.result.ok
          THEN /\ subs' = [subs EXCEPT ![s] =
                    [@ EXCEPT !.rx = r.rx,
                              !.events = Append(@, SseData(ToJson(r.result.val))),
                              !.got = Append(@, r.pos)]]
               /\ chan' = chan
          ELSE /\ subs' = [subs EXCEPT ![s] = [@ EXCEPT !.rx = r.rx, !.state = "ended"]]
               /\ chan' = drop_receiver(chan)
    /\ UNCHANGED <<builder, server, calls>>

\* The client disconnects: the response body, the stream and its receiver
\* are dropped.
Close(s) ==
    /\ subs[s].state = "open"
    /\ subs' = [subs EXCEPT ![s].state = "closed"]
    /\ chan' = drop_receiver(chan)
    /\ UNCHANGED <<builder, server, calls>>

\* Mutant: the work of a cancelled call goes on detached from its caller and
\* its response is still sent to the channel.
Cancel_detached(c) ==
    /\ calls[c].pc = "routing"
    /\ \E env \in HandlerEnvs(server, Unwrap(calls[c].req).body) :
       LET routed == route_request(Unwrap(calls[c].req).body, server, env)
           sent == IF routed.ok THEN send(chan, routed.val)
                   ELSE [chan |-> chan, result |-> Err(JsonNull)]
       IN /\ Invoked(routed) # <<>>
          /\ calls' = [calls EXCEPT ![c] =
                [@ EXCEPT !.pc = "cancelled",
                          !.invoked = Invoked(routed), !.passed = Passed(routed)]]
          /\ chan' = sent.chan
    /\ UNCHANGED <<builder, server, subs>>

\* The caller goes away and the future of handle_post is dropped while
\* route_request (line 164) is suspended in the k-th registered handler it
\* awaits: the handlers before it have returned, it was called and never
\* returns to the call, and no statement after the await runs.  env, what
\* the handlers return, decides how far the call can have come; the call
\* itself never sees a result.
Cancel(c) ==
    /\ calls[c].pc = "routing"
    /\ \E env \in HandlerEnvs(server, Unwrap(calls[c].req).body) :
       LET routed == route_request(Unwrap(calls[c].req).body, server, env)
       IN \E k \in DOMAIN Invoked(routed) :
             calls' = [calls EXCEPT ![c] =
                [@ EXCEPT !.pc = "cancelled",
                          !.invoked = SubSeq(Invoked(routed), 1, k),
                          !.passed = SubSeq(Passed(routed), 1, k)]]
    /\ UNCHANGED <<builder, server, chan, subs>>

\* One registration call on the builder: tool, resource, prompt.
Register(reg) ==
    /\ builder.self # None
    /\ Len(builder.regs) < MaxRegs
    /\ builder' = [self |-> Some(Apply(Unwrap(builder.self), reg)),
                   regs |-> Append(builder.regs, reg)]
    /\ UNCHANGED <<server, chan, calls, subs>>

\* HttpMcpServerBuilder::build(self): the builder is consumed, the server and
\* its broadcast channel exist from here on.
Build ==
    /\ builder.self # None
    /\ server' = build(Unwrap(builder.self))
    /\ chan' = channel
    /\ builder' = [builder EXCEPT !.self = None]
    /\ UNCHANGED <<calls, subs>>

\* ------------------------------------------------------------- the inputs

\* The headers of a GET /mcp: a first connection, and a reconnection that
\* presents the identifier of the last event it saw.
NoToken == [accept |-> None, authorization |-> None, last_event_id |-> None]
Resuming == [accept |-> None, authorization |-> None, last_event_id |-> Some("1")]
AcceptJson == Some(<<"application/json">>)
AcceptSse == Some(<<"application/json", "text/event-stream">>)

Post(jsonrpc, method, params, id, accept) ==
    [body |-> [jsonrpc |-> jsonrpc, method |-> method, params |-> params, id |-> id],
     headers |-> [accept |-> accept, authorization |-> None]]

\* The server of the streaming specification: one tool, one resource
\* provider, one prompt, no OAuth.
DefaultRegs ==
    <<Registration("tool", "add", "1"), Registration("resource", "file:///a", "1"),
      Registration("prompt", "greet", "1")>>
DefaultServer == build(Registered(DefaultRegs))

\* The builder after build(self) consumed it: only its history is left.
Built(regs) == [self |-> None, regs |-> regs]

Ids == {None, Some(RequestIdNumber(1)), Some(RequestIdString("a"))}

\* The requests of the streaming specification: a tool call (whose handler
\* succeeds or fails), as a request or a notification, streaming-preferred
\* or not.
StreamRequests ==
    {Post("2.0", "tools/call", Some([name |-> "add"]), id, accept) :
        id \in {None, Some(RequestIdNumber(1))}, accept \in {AcceptJson, AcceptSse}}

Init ==
    /\ builder = Built(DefaultRegs)
    /\ server = DefaultServer
    /\ chan = channel
    /\ calls = [c \in Calls |-> IdleCall]
    /\ subs = [s \in Subs |-> NoSub]

Next ==
    \/ \E c \in Calls, r \in StreamRequests : StartPost(c, r)
    \/ \E c \in Calls : RouteRequest(c)
    \/ \E c \in Calls : Publish(c)
    \/ \E s \in Subs, h \in {NoToken, Resuming} : Subscribe(s, h)
    \/ \E s \in Subs : Recv(s)
    \/ \E s \in Subs : Close(s)

Spec == Init /\ [][Next]_vars

\* ------------------------------------------- the dispatch specification

\* One call and one streaming connection against a server with or without
\* OAuth, the call drawn from every method with well-formed, malformed and
\* missing params, both protocol versions, every kind of id and header.
V2024 == <<"2", "0", "2", "4", "-", "1", "1", "-", "0", "5">>
V2025 == <<"2", "0", "2", "5", "-", "0", "3", "-", "2", "6">>
V2023 == <<"2", "0", "2", "3", "-", "0", "1", "-", "0", "1">>
\* Versions that share a proper prefix of "2024-" / "2025-" only.
V2024NoDash == <<"2", "0", "2", "4">>
V2026 == <<"2", "0", "2", "6", "-", "0", "1", "-", "0", "1">>
Versions == {V2024, V2025, P2024, V2023, V2024NoDash, V2026, <<>>}

InitializeParams(version) ==
    [protocolVersion |-> version, capabilities |-> "{}",
     clientInfo |-> [name |-> "client", version |-> "1"]]

MethodsAndParams ==
    {<<m, None>> : m \in {"initialize", "ping", "notifications/initialized",
                          "resources/list", "resources/read",
                          "resources/templates/list", "resources/subscribe",
                          "tools/list", "tools/call", "prompts/list",
                          "prompts/get", "logging/setLevel", "nope", "Ping",
                          "tools", "tools/call/add", ""}}
    \cup {<<"nope", Some([name |-> "add"])>>}
    \cup {<<"initialize", Some(InitializeParams(v))>> : v \in Versions}
    \cup {<<"initialize", Some([protocolVersion |-> V2024])>>}
    \cup {<<"tools/call", Some([name |-> n])>> : n \in {"add", "fail", "nope"}}
    \cup {<<"tools/call", Some([name |-> "add", arguments |-> a])>> :
              a \in {SomeArguments, EmptyMap}}
    \cup {<<"resources/read", Some([uri |-> u])>> : u \in {"file:///a", "file:///zz"}}
    \cup {<<"prompts/get", Some([name |-> n])>> : n \in {"greet", "nope"}}
    \cup {<<"logging/setLevel", Some([level |-> l])>> : l \in {"info", "loud"}}
    \cup {<<"tools/call", Some([arguments |-> SomeArguments])>>,
          <<"resources/read", Some([name |-> "file:///a"])>>,
          <<"prompts/get", Some([uri |-> "greet"])>>,
          <<"resources/list", Some([cursor |-> [string |-> "c1"]])>>,
          <<"resources/list", Some([cursor |-> [number |-> 5]])>>}

Authorizations ==
    {None, Some(<<"Bearer ", "">>), Some(<<"Bearer ", "token">>),
     Some(<<"Basic ", "token">>)}

AllRequests ==
    {[body |-> [jsonrpc |-> v, method |-> mp[1], params |-> mp[2], id |-> id],
      headers |-> [accept |-> accept, authorization |-> auth]] :
        v \in {"2.0", "1.0"}, mp \in MethodsAndParams, id \in Ids,
        accept \in {AcceptJson, AcceptSse}, auth \in Authorizations}

GetHeaders ==
    {[accept |-> AcceptSse, authorization |-> auth, last_event_id |-> None] :
        auth \in Authorizations}

WithOAuth == [kind |-> "with_oauth"]
DispatchRegs == Append(DefaultRegs, Registration("tool", "fail", "failing"))

InitDispatch ==
    /\ \E regs \in {DispatchRegs, Append(DispatchRegs, WithOAuth)} :
          /\ builder = Built(regs)
          /\ server = build(Registered(regs))
    /\ chan = channel
    /\ calls = [c \in Calls |-> IdleCall]
    /\ subs = [s \in Subs |-> NoSub]

NextDispatch ==
    \/ \E r \in AllRequests : StartPost(1, r)
    \/ RouteRequest(1)
    \/ Publish(1)
    \/ \E h \in GetHeaders : Subscribe(1, h)
    \/ Recv(1)
    \/ Close(1)

SpecDispatch == InitDispatch /\ [][NextDispatch]_vars

\* ------------------------------------------- the registry specification

\* The embedding application registers up to MaxRegs entries in any order,
\* names and URIs repeating, builds the server, and one call is made.
RegistryRegs ==
    {Registration("tool", "add", v) : v \in {"1", "2"}}
    \cup {Registration("tool", "sub", "1")}
    \cup {Registration("resource", u, "1") : u \in {"file:///a", "file:///b", "file:///c"}}
    \cup {Registration("resource", "file:///a", "2")}
    \cup {Registration("prompt", "greet", v) : v \in {"1", "2"}}

RegistryRequests ==
    {Post("2.0", mp[1], mp[2], Some(RequestIdNumber(1)), AcceptJson) :
        mp \in {<<"tools/list", None>>, <<"prompts/list", None>>,
                 <<"resources/list", None>>,
                 <<"resources/list", Some([cursor |-> [string |-> "c1"]])>>,
                 <<"resources/list", Some([cursor |-> [number |-> 5]])>>,
                 <<"initialize", Some(InitializeParams(V2024))>>}
            \cup {<<"tools/call", Some([name |-> n])>> : n \in {"add", "sub"}}
            \cup {<<"prompts/get", Some([name |-> "greet"])>>}
            \cup {<<"resources/read", Some([uri |-> u])>> : u \in {"file:///a", "file:///zz"}}}

InitRegistry ==
    /\ builder = [self |-> Some(new), regs |-> <<>>]
    /\ server = None                  \* no server and no channel before build
    /\ chan = None
    /\ calls = [c \in Calls |-> IdleCall]
    /\ subs = [s \in Subs |-> NoSub]

NextRegistry ==
    \/ \E reg \in RegistryRegs : Register(reg)
    \/ Build
    \/ \E r \in RegistryRequests : StartPost(1, r)
    \/ RouteRequest(1)

SpecRegistry == InitRegistry /\ [][NextRegistry]_vars

\* -------------------------------------------- the session specification

\* A builder with all, some or none of the registries filled is built, and
\* SessionCalls calls are made, one after or beside the other: with and
\* without an initialize (accepted or refused) before the other methods.
SessionServers ==
    {<<>>, DefaultRegs, <<Registration("tool", "add", "1")>>,
     <<Registration("resource", "file:///a", "1"), Registration("prompt", "greet", "1")>>}

SessionRequests ==
    {Post("2.0", mp[1], mp[2], id, AcceptJson) :
        mp \in {<<"initialize", Some(InitializeParams(V2024))>>,
                 <<"initialize", Some(InitializeParams(V2023))>>,
                 <<"ping", None>>, <<"tools/list", None>>,
                 <<"tools/call", Some([name |-> "add"])>>,
                 <<"resources/list", None>>,
                 <<"resources/read", Some([uri |-> "file:///a"])>>,
                 <<"prompts/list", None>>,
                 <<"prompts/get", Some([name |-> "greet"])>>,
                 <<"logging/setLevel", Some([level |-> "info"])>>,
                 <<"notifications/initialized", None>>},
        id \in {Some(RequestIdNumber(1))}}

InitSession ==
    /\ \E regs \in SessionServers :
          builder = [self |-> Some(Registered(regs)), regs |-> regs]
    /\ server = None
    /\ chan = None
    /\ calls = [c \in Calls |-> IdleCall]
    /\ subs = [s \in Subs |-> NoSub]

NextSession ==
    \/ Build
    \/ \E c \in 1..SessionCalls, r \in SessionRequests : StartPost(c, r)
    \/ \E c \in 1..SessionCalls : RouteRequest(c)

SpecSession == InitSession /\ [][NextSession]_vars

\* ------------------------------------------------------- claims: vocabulary

\* -------------------------------------- the cancellation specification

\* SessionCalls calls and one streaming connection against a server with one tool
\* and two resource providers; a caller may go away while its call awaits a
\* handler.
CancelRegs ==
    <<Registration("tool", "add", "1"), Registration("resource", "file:///a", "1"),
      Registration("resource", "file:///b", "1")>>

CancelRequests ==
    {Post("2.0", mp[1], mp[2], Some(RequestIdNumber(1)), AcceptSse) :
        mp \in {<<"tools/call", Some([name |-> "add"])>>,
                 <<"resources/read", Some([uri |-> "file:///a"])>>}}

InitCancel ==
    /\ builder = Built(CancelRegs)
    /\ server = build(Registered(CancelRegs))
    /\ chan = channel
    /\ calls = [c \in Calls |-> IdleCall]
    /\ subs = [s \in Subs |-> NoSub]

NextCancel ==
    \/ \E c \in 1..SessionCalls, r \in CancelRequests : StartPost(c, r)
    \/ \E c \in Calls : RouteRequest(c)
    \/ \E c \in Calls : Cancel(c)
    \/ \E c \in Calls : Publish(c)
    \/ Subscribe(1, NoToken)
    \/ Recv(1)
    \/ Close(1)

SpecCancel == InitCancel /\ [][NextCancel]_vars

\* ------------------------------------------------ the lag specification

\* Streaming-preferred tool calls, enough of them to overrun the channel
\* and to publish once more, against streams that read at their own pace.
LagCalls == 1..(Capacity + 2)

LagRequest ==
    Post("2.0", "tools/call", Some([name |-> "add"]), Some(RequestIdNumber(1)),
         AcceptSse)

InitLag ==
    /\ builder = Built(DefaultRegs)
    /\ server = DefaultServer
    /\ chan = channel
    /\ calls = [c \in LagCalls |-> IdleCall]
    /\ subs = [s \in Subs |-> NoSub]

NextLag ==
    \/ \E c \in LagCalls : StartPost(c, LagRequest)
    \/ \E c \in LagCalls : RouteRequest(c)
    \/ \E c \in LagCalls : Publish(c)
    \/ \E s \in Subs : Subscribe(s, NoToken)
    \/ \E s \in Subs : Recv(s)
    \/ \E s \in Subs : Close(s)

SpecLag == InitLag /\ [][NextLag]_vars

\* ---------------------------------------------- the counting specification

\* Streams are opened with and without a token on a server with OAuth, are
\* closed by their clients or end by lagging, while authenticated
\* streaming-preferred calls read the subscriber count and publish.
WithToken ==
    [accept |-> None, authorization |-> Some(<<"Bearer ", "token">>),
     last_event_id |-> None]

CountRequest ==
    [body |-> [jsonrpc |-> "2.0", method |-> "tools/call",
               params |-> Some([name |-> "add"]), id |-> Some(RequestIdNumber(1))],
     headers |-> [accept |-> AcceptSse,
                  authorization |-> Some(<<"Bearer ", "token">>)]]

InitCount ==
    /\ builder = Built(Append(DefaultRegs, WithOAuth))
    /\ server = build(Registered(Append(DefaultRegs, WithOAuth)))
    /\ chan = channel
    /\ calls = [c \in Calls |-> IdleCall]
    /\ subs = [s \in Subs |-> NoSub]

NextCount ==
    \/ \E c \in Calls : StartPost(c, CountRequest)
    \/ \E c \in Calls : RouteRequest(c)
    \/ \E c \in Calls : Publish(c)
    \/ \E s \in Subs, h \in {NoToken, WithToken} : Subscribe(s, h)
    \/ \E s \in Subs : Recv(s)
    \/ \E s \in Subs : Close(s)

SpecCount == InitCount /\ [][NextCount]_vars

OpenSubs == {s \in Subs : subs[s].state = "open"}
Req(c) == Unwrap(calls[c].req)
Done(c) == calls[c].pc = "done"
Http(c) == Unwrap(calls[c].http)
HasId(c) == ~is_notification(Req(c).body)
\* The call computed a response: route_request returned Ok.
Computed(c) == calls[c].response # None
Response(c) == Unwrap(calls[c].response)
\* The response was written on the caller's own connection.
Direct(c) == Http(c) = HttpResponse(HTTP_OK, Some(ToJson(Response(c))))
\* The caller got the empty "accepted" acknowledgment.
AcceptedEmpty(c) == Http(c) = HttpResponse(ACCEPTED, None)
\* The channel took the response for at least one receiver.
Published(c) == calls[c].sent # None /\ Unwrap(calls[c].sent).ok
\* The indices of the events that subscription s read from position p.
EventsAt(s, p) == {i \in DOMAIN subs[s].got : subs[s].got[i] = p}
\* Subscription s is connected and has read everything published so far.
CaughtUp(s) == subs[s].state = "open" /\ ~recv_ready(chan, subs[s].rx)

\* ---------------------------------------------------------------------- C2

\* C2 (as claimed): a computed response of a request is never discarded: when
\* the call is done, the response was either written directly to the caller
\* or taken by the channel for at least one subscription; a publish that
\* finds no subscription falls back to the direct response.
C2_ResponseNeverDiscarded ==
    \A c \in Calls :
        (Done(c) /\ Computed(c) /\ HasId(c)) => (Direct(c) \/ Published(c))

\* ---------------------------------------------------------------------- C3

\* C3: a streaming-preferred request with an id whose computation succeeds and
\* which is published gets the empty 202 acknowledgment, not the JSON body;
\* no subscription ever holds more than one event for it, each such event
\* carries the computed response, and a subscription that was open before
\* the publish and has read everything published holds exactly one.
C3_StreamedExactlyOnce ==
    \A c \in Calls :
        (Done(c) /\ Computed(c) /\ HasId(c) /\ accept_sse(Req(c).headers)
         /\ Published(c)) =>
            /\ AcceptedEmpty(c)
            /\ calls[c].pos \in 1..Len(chan.log)
            /\ chan.log[calls[c].pos] = Response(c)
            /\ \A s \in Subs :
                /\ Cardinality(EventsAt(s, calls[c].pos)) <= 1
                /\ \A i \in EventsAt(s, calls[c].pos) :
                      subs[s].events[i] = SseData(ToJson(Response(c)))
                /\ (CaughtUp(s) /\ subs[s].start < calls[c].pos) =>
                      Cardinality(EventsAt(s, calls[c].pos)) = 1

\* Witness: exactly one subscription, open, holding the one event of a
\* published request whose caller got 202.
C3_Witness ==
    \E c \in Calls :
        /\ Done(c) /\ Published(c) /\ AcceptedEmpty(c)
        /\ OpenSubs = {1} /\ subs[2].state = "none"
        /\ subs[1].events = <<SseData(ToJson(Response(c)))>>
        /\ subs[1].got = <<calls[c].pos>>

\* ---------------------------------------------------------------------- C4

\* C4: a streaming-preferred request whose response is computed while no
\* subscription is open gets the full JSON response directly (status 200) and
\* nothing is published for it; every event on every stream, also of a
\* subscription opened later, was read from a position some call with a 202
\* acknowledgment published at, after that subscription was created.
C4_FallbackStep ==
    \A c \in Calls :
        (/\ calls[c].pc = "routing" /\ calls'[c].pc # "routing"
         /\ calls'[c].response # None
         /\ ~is_notification(Req(c).body) /\ accept_sse(Req(c).headers)
         /\ OpenSubs = {}) =>
            /\ calls'[c].pc = "done"
            /\ calls'[c].http =
                  Some(HttpResponse(HTTP_OK, Some(ToJson(Unwrap(calls'[c].response)))))
            /\ calls'[c].sent = None
            /\ chan' = chan

C4_EventsArePublished ==
    /\ \A c \in Calls : (Done(c) /\ Computed(c) /\ calls[c].sent = None) =>
            calls[c].pos = 0
    /\ \A s \in Subs : \A i \in DOMAIN subs[s].got :
            /\ subs[s].got[i] > subs[s].start
            /\ \E c \in Calls : /\ Done(c) /\ AcceptedEmpty(c)
                                /\ calls[c].pos = subs[s].got[i]

C4_Fallback == [][C4_FallbackStep]_vars /\ []C4_EventsArePublished

\* Witness: a fallback call (streaming-preferred, answered directly), then a
\* subscription that has received another call's message and nothing else.
C4_Witness ==
    \E c, d \in Calls :
        /\ Done(c) /\ HasId(c) /\ accept_sse(Req(c).headers) /\ Computed(c)
        /\ Direct(c) /\ calls[c].count = 0
        /\ Done(d) /\ Published(d)
        /\ CaughtUp(1) /\ subs[1].got = <<calls[d].pos>>

\* ---------------------------------------------------------------------- C5

\* C5: fan-out without routing.  A publish makes the message the newest
\* unread value of every open subscription, whoever issued the request; a
\* stream never passes over a message (its events are, without a gap, the
\* messages published since it subscribed, up to its read position); and
\* every open subscription that has read everything published holds, in
\* its events, every message published since it subscribed (each carrying
\* the published response), with no filtering by issuer.
C5_PublishStep ==
    \A c \in Calls :
        (calls[c].pc = "counted" /\ calls'[c].pc = "done"
         /\ Unwrap(calls'[c].sent).ok) =>
            /\ chan'.log = Append(chan.log, Unwrap(calls[c].response))
            /\ \A s \in OpenSubs :
                /\ subs'[s].rx.next < Len(chan'.log)
                /\ recv_ready(chan', subs'[s].rx)

C5_NothingPassedOver ==
    \A s \in Subs :
        /\ \A i \in DOMAIN subs[s].got : subs[s].got[i] = subs[s].start + i
        /\ subs[s].state \in {"open", "closed"} =>
              Len(subs[s].got) = subs[s].rx.next - subs[s].start

C5_CaughtUpHasAll ==
    \A s \in Subs : CaughtUp(s) =>
        /\ subs[s].got = [i \in 1..(Len(chan.log) - subs[s].start) |-> subs[s].start + i]
        /\ \A i \in DOMAIN subs[s].events :
              subs[s].events[i] = SseData(ToJson(chan.log[subs[s].got[i]]))

C5_FanOut ==
    [][C5_PublishStep]_vars /\ []C5_NothingPassedOver /\ []C5_CaughtUpHasAll

\* Witness: two open subscriptions both hold the event of the same call.
C5_Witness ==
    \E c \in Calls :
        /\ Done(c) /\ Published(c)
        /\ OpenSubs = {1, 2}
        /\ EventsAt(1, calls[c].pos) # {} /\ EventsAt(2, calls[c].pos) # {}

\* ---------------------------------------------------------------------- C6

\* The events the stream can carry that are not a published response.
IsGapSignal(e) == e.event # None \/ "result" \notin DOMAIN e.data

\* C6 (as claimed): a subscription that fell more than the capacity behind
\* (its recv returned Lagged) has an explicit gap signal among its events.
C6_LagIsSignalled ==
    \A s \in Subs :
        subs[s].state = "ended" =>
            \E i \in DOMAIN subs[s].events : IsGapSignal(subs[s].events[i])

\* ---------------------------------------------------------------------- C7

\* C7: a call that has read a positive subscriber count can always take its
\* publish step, whatever the subscriptions have consumed, and the step ends
\* the call with the 202 acknowledgment.
C7_ProducerNeverBlocked ==
    \A c \in Calls :
        /\ calls[c].pc = "counted" => ENABLED Publish(c)
        /\ (Done(c) /\ calls[c].sent # None) => AcceptedEmpty(c)

\* Witness: a call about to publish while an open subscription that never
\* consumed anything has a full buffer of unread messages.
C7_Witness ==
    \E c \in Calls, s \in Subs :
        /\ calls[c].pc = "counted"
        /\ subs[s].state = "open" /\ subs[s].got = <<>>
        /\ Len(chan.log) - subs[s].rx.next >= Capacity

\* ---------------------------------------------------------------------- C8

\* C8: per subscription, events are received in publish order: the channel
\* positions of its events are strictly increasing, and each event carries
\* the response published at its position.
C8_FifoPerSubscriber ==
    \A s \in Subs :
        /\ \A i, j \in DOMAIN subs[s].got :
              i < j => subs[s].got[i] < subs[s].got[j]
        /\ \A i \in DOMAIN subs[s].got :
              /\ subs[s].got[i] \in 1..Len(chan.log)
              /\ subs[s].events[i] = SseData(ToJson(chan.log[subs[s].got[i]]))

\* Witness: a subscription holds, in publish order, the messages of two
\* calls that published in the reverse of their arrival order.
C8_Witness ==
    \E s \in Subs :
        /\ subs[s].got = <<1, 2>>
        /\ calls[2].pos = 1 /\ calls[1].pos = 2

\* ---------------------------------------------------------------------- C1

\* The call passed the OAuth check and the structural validation, so its
\* outcome is that of route_request.
Routed(c) ==
    /\ check_oauth(server, Req(c).headers).ok
    /\ validate(Req(c).body).ok

\* C1 (as claimed): a message without id never produces a response body,
\* whatever its method and whether processing succeeds or fails.
C1_NotificationHasNoBody ==
    \A c \in Calls :
        (Done(c) /\ Routed(c) /\ ~HasId(c)) => Http(c).body = None

\* ---------------------------------------------------------------------- C9

\* C9 (as claimed): the response to a message with an id, result or error,
\* carries that id.
C9_IdEchoed ==
    \A c \in Calls :
        (Done(c) /\ Routed(c) /\ HasId(c)) =>
            /\ Computed(c) => Response(c).id = Req(c).body.id
            /\ Http(c).body # None => Unwrap(Http(c).body).id = Req(c).body.id

\* --------------------------------------------------------------------- C10

\* C10 (as claimed): a message whose jsonrpc is not "2.0" or whose method is
\* empty is answered with code -32600 and status 400.
C10_InvalidRequestRejected ==
    \A c \in Calls :
        (Done(c) /\ check_oauth(server, Req(c).headers).ok
         /\ (Req(c).body.jsonrpc # "2.0" \/ Req(c).body.method = "")) =>
            /\ Http(c).status = BAD_REQUEST
            /\ Http(c).body # None
            /\ Unwrap(Http(c).body).error # None
            /\ Unwrap(Unwrap(Http(c).body).error).code = INVALID_REQUEST

\* --------------------------------------------------------------------- C11

\* The message of call c fails the structural validation.
Malformed(c) == Req(c).body.jsonrpc # "2.0" \/ Req(c).body.method = ""

\* C11: a received message with a wrong protocol version or an empty method
\* is answered at once: the call never awaits route_request, no registered
\* handler is invoked for it, it computes no response and publishes nothing
\* (every value in the channel was published by another call).
C11_ValidationPrecedesRouting ==
    \A c \in Calls :
        (calls[c].req # None /\ Malformed(c)) =>
            /\ Done(c)
            /\ calls[c].env = None
            /\ calls[c].invoked = <<>>
            /\ calls[c].response = None
            /\ calls[c].sent = None /\ calls[c].pos = 0
            /\ \A i \in DOMAIN chan.log :
                  \E d \in Calls \ {c} : calls[d].pos = i

\* Witness: a tools/call of a registered tool with version "1.0", streaming
\* preferred, answered while a subscription is open.
C11_Witness ==
    /\ Done(1) /\ Req(1).body.jsonrpc = "1.0"
    /\ Req(1).body.method = "tools/call"
    /\ Req(1).body.params = Some([name |-> "add"])
    /\ accept_sse(Req(1).headers) /\ HasId(1)
    /\ check_oauth(server, Req(1).headers).ok
    /\ OpenSubs = {1}

\* --------------------------------------------------------------------- C12

\* The error object of the response written to the caller of call c.
HasError(c) == Http(c).body # None /\ Unwrap(Http(c).body).error # None
Error(c) == Unwrap(Unwrap(Http(c).body).error)

\* Call c is a tools/call that names a tool missing from the registry.
UnregisteredTool(c) ==
    /\ Req(c).body.method = "tools/call"
    /\ Req(c).body.params # None
    /\ "name" \in DOMAIN Unwrap(Req(c).body.params)
    /\ Unwrap(Req(c).body.params).name \notin DOMAIN server.tools

\* C12: a tools/call naming an unregistered tool is answered with an error
\* of code -32601 whose data is {"tool": name}; no handler is invoked and no
\* result is computed.
C12_ToolNotFound ==
    \A c \in Calls :
        (Done(c) /\ Routed(c) /\ UnregisteredTool(c)) =>
            /\ HasError(c)
            /\ Error(c).code = -32601
            /\ Error(c).data = Some([tool |-> Unwrap(Req(c).body.params).name])
            /\ Unwrap(Http(c).body).result = None
            /\ calls[c].invoked = <<>>
            /\ calls[c].response = None

\* Witness: the tool "nope" was called on a server holding other tools.
C12_Witness ==
    /\ Done(1) /\ Routed(1) /\ UnregisteredTool(1)
    /\ Unwrap(Req(1).body.params).name = "nope"
    /\ DOMAIN server.tools = {"add", "fail"}
    /\ Error(1).data = Some([tool |-> "nope"])

\* --------------------------------------------------------------------- C13

\* The identifiers registered in one category on the builder, before build.
RegisteredIds(kind) ==
    {builder.regs[i].id : i \in {j \in DOMAIN builder.regs : builder.regs[j].kind = kind}}

\* The result member of the response computed by call c.
Result(c) == Unwrap(Response(c).result)

\* C13: the tools member of a tools/list result names exactly the tools
\* registered before build (whatever the order and the repetitions of the
\* registrations) and names each of them once.
C13_ToolsListIsRegisteredSet ==
    \A c \in Calls :
        (Done(c) /\ Computed(c) /\ Req(c).body.method = "tools/list") =>
            LET tools == Result(c).tools
            IN /\ {tools[i].name : i \in DOMAIN tools} = RegisteredIds("tool")
               /\ \A i, j \in DOMAIN tools : tools[i].name = tools[j].name => i = j
               /\ Len(tools) = Cardinality(RegisteredIds("tool"))
               /\ Direct(c)

\* Witness: two tools, one of them registered twice, listed as two.
C13_Witness ==
    /\ Done(1) /\ Computed(1) /\ Req(1).body.method = "tools/list"
    /\ Len(builder.regs) = 3
    /\ \A i \in DOMAIN builder.regs : builder.regs[i].kind = "tool"
    /\ builder.regs[1].id = "add" /\ builder.regs[2].id = "sub"
    /\ builder.regs[3].id = "add"
    /\ Len(Result(1).tools) = 2

\* --------------------------------------------------------------------- C14

\* Call c is a resources/read with well-formed params; its URI; what the
\* providers' read handlers returned to it.
IsRead(c) ==
    /\ Req(c).body.method = "resources/read"
    /\ Req(c).body.params # None
    /\ "uri" \in DOMAIN Unwrap(Req(c).body.params)
Uri(c) == Unwrap(Req(c).body.params).uri
Reads(c) == Unwrap(calls[c].env).read
Recognizing(c) == {p \in DOMAIN Reads(c) : Reads(c)[p] = "found"}

\* C14: when every provider either returns contents for the URI or returns
\* nothing, then, in every iteration order of the providers: if exactly one
\* returns contents the result holds exactly that provider's contents, and
\* if none does the call fails with code -32002 and data {"uri": R}.
C14_ReadAsksEveryProvider ==
    \A c \in Calls :
        (Done(c) /\ Routed(c) /\ IsRead(c)
         /\ \A p \in DOMAIN Reads(c) : Reads(c)[p] \in {"found", "empty"}) =>
            /\ Cardinality(Recognizing(c)) = 1 =>
                  /\ Computed(c)
                  /\ Result(c).contents =
                        <<Contents(CHOOSE p \in Recognizing(c) : TRUE, Uri(c))>>
                  /\ Http(c) = HttpResponse(HTTP_OK, Some(ToJson(Response(c))))
            /\ Recognizing(c) = {} =>
                  /\ ~Computed(c)
                  /\ HasError(c)
                  /\ Error(c).code = -32002
                  /\ Error(c).data = Some([uri |-> Uri(c)])

\* Witness: three providers, the one iterated last recognises the URI.
C14_Witness ==
    /\ Done(1) /\ IsRead(1) /\ Computed(1)
    /\ DOMAIN server.resources = {"file:///a", "file:///b", "file:///c"}
    /\ Reads(1) = [p \in DOMAIN server.resources |->
                      IF p = "file:///b" THEN "found" ELSE "empty"]
    /\ Unwrap(calls[1].env).order[3] = "file:///b"
    /\ Len(calls[1].invoked) = 3
    /\ Result(1).contents = <<Contents("file:///b", Uri(1))>>

\* --------------------------------------------------------------------- C15

\* Call c is an initialize whose params hold every required member.
IsInitialize(c) ==
    /\ Req(c).body.method = "initialize"
    /\ Req(c).body.params # None
    /\ {"protocolVersion", "capabilities", "clientInfo"}
          \subseteq DOMAIN Unwrap(Req(c).body.params)
Version(c) == Unwrap(Req(c).body.params).protocolVersion
Supported(v) ==
    /\ Len(v) >= 5
    /\ <<v[1], v[2], v[3], v[4], v[5]>>
          \in {<<"2", "0", "2", "4", "-">>, <<"2", "0", "2", "5", "-">>}

\* C15: an initialize with well-formed params succeeds exactly when the
\* declared version starts with "2024-" or "2025-"; it then returns the
\* version, the capability set and the server's name and version; any other
\* version fails with InvalidRequest (code -32600, status 400).
C15_InitializeVersions ==
    \A c \in Calls :
        (Done(c) /\ Routed(c) /\ IsInitialize(c)) =>
            /\ Computed(c) <=> Supported(Version(c))
            /\ Computed(c) =>
                  /\ Result(c) = [protocolVersion |-> Version(c),
                                  capabilities |-> server.capabilities,
                                  serverInfo |-> [name |-> "httpmcp-server",
                                                  version |-> "1.0.0"]]
                  /\ Response(c).error = None
            /\ ~Computed(c) =>
                  /\ HasError(c)
                  /\ Error(c).code = -32600
                  /\ Http(c).status = 400
                  /\ Unwrap(Http(c).body).result = None

\* Witness: an initialize declaring a 2025 version has succeeded.
C15_Witness ==
    /\ Done(1) /\ Routed(1) /\ IsInitialize(1) /\ Computed(1)
    /\ Version(1) = V2025
    /\ Result(1).capabilities.tools # None

\* --------------------------------------------------------------------- C16

\* A capability is advertised exactly when something was registered in its
\* category before build.
Advertised(capability, kind) == capability # None <=> RegisteredIds(kind) # {}

C16_Snapshot ==
    builder.self = None =>
        /\ server.capabilities.logging # None
        /\ Advertised(server.capabilities.prompts, "prompt")
        /\ Advertised(server.capabilities.resources, "resource")
        /\ Advertised(server.capabilities.tools, "tool")
        /\ \A c \in Calls :
              (Done(c) /\ Computed(c) /\ Req(c).body.method = "initialize") =>
                  /\ Result(c).capabilities = server.capabilities
                  /\ Result(c).capabilities.logging # None
                  /\ Advertised(Result(c).capabilities.prompts, "prompt")
                  /\ Advertised(Result(c).capabilities.resources, "resource")
                  /\ Advertised(Result(c).capabilities.tools, "tool")

C16_Frozen == builder.self = None => server' = server

\* C16: the capability set is fixed at build (logging always, the others
\* exactly for the non-empty registries), no request changes the server, and
\* every successful initialize, whatever preceded it, returns that set.
C16_CapabilitySnapshot == []C16_Snapshot /\ [][C16_Frozen]_vars

\* Witness: on a server with tools only, an initialize that followed a
\* completed tool call has returned tools without prompts and resources.
C16_Witness ==
    /\ Done(1) /\ Req(1).body.method = "tools/call" /\ calls[1].invoked # <<>>
    /\ calls[1].pc = "done" /\ calls[2].pc = "done"
    /\ Computed(2) /\ Req(2).body.method = "initialize"
    /\ Result(2).capabilities.tools # None
    /\ Result(2).capabilities.prompts = None
    /\ Result(2).capabilities.resources = None

\* --------------------------------------------------------------------- C17

\* The registered tool handler of call c failed; the error it returned.
HandlerFailed(c) ==
    /\ calls[c].invoked # <<>> /\ calls[c].invoked[1][1] = "tool"
    /\ ~Unwrap(calls[c].env).tool.ok
Raised(c) == Unwrap(calls[c].env).tool.err

\* The error code table.
CodeTable ==
    [ParseError |-> -32700, InvalidRequest |-> -32600, MethodNotFound |-> -32601,
     InvalidParams |-> -32602, InternalError |-> -32603,
     ResourceNotFound |-> -32002, ToolNotFound |-> -32601,
     PromptNotFound |-> -32601]

\* C17: whatever member of the taxonomy a call fails with, the error object
\* delivered carries the code of the table for that member (a member the
\* table does not name carries one of the table's codes), and the three
\* not-found members carry the data naming what was not found.
C17_ErrorCodeTable ==
    \A c \in Calls :
        (Done(c) /\ HandlerFailed(c)) =>
            /\ HasError(c)
            /\ Raised(c).variant \in DOMAIN CodeTable =>
                  Error(c).code = CodeTable[Raised(c).variant]
            /\ Error(c).code \in {CodeTable[v] : v \in DOMAIN CodeTable}
            /\ Raised(c).variant = "ResourceNotFound" =>
                  Error(c).data = Some([uri |-> Raised(c).arg])
            /\ Raised(c).variant = "ToolNotFound" =>
                  Error(c).data = Some([tool |-> Raised(c).arg])
            /\ Raised(c).variant = "PromptNotFound" =>
                  Error(c).data = Some([prompt |-> Raised(c).arg])

\* Witness: a call failed with ResourceNotFound and delivered -32002.
C17_Witness ==
    /\ Done(1) /\ HandlerFailed(1)
    /\ Raised(1) = McpError("ResourceNotFound", "x")
    /\ Error(1).code = -32002 /\ Error(1).data = Some([uri |-> "x"])

\* --------------------------------------------------------------------- C18

\* The methods of the protocol.
Recognized ==
    {"initialize", "ping", "notifications/initialized", "resources/list",
     "resources/read", "resources/templates/list", "resources/subscribe",
     "tools/list", "tools/call", "prompts/list", "prompts/get",
     "logging/setLevel"}

\* C18: a structurally valid message whose method is none of the recognized
\* ones fails with MethodNotFound (code -32601) whose message is the method
\* name; no handler is invoked and no result is computed.
C18_MethodNotFound ==
    \A c \in Calls :
        (Done(c) /\ Routed(c) /\ Req(c).body.method \notin Recognized) =>
            /\ HasError(c)
            /\ Error(c).code = -32601
            /\ Error(c).message = Req(c).body.method
            /\ Error(c).data = None
            /\ Unwrap(Http(c).body).result = None
            /\ ~Computed(c)
            /\ calls[c].invoked = <<>>

\* Witness: a method that extends the name of a recognized one was refused.
C18_Witness ==
    /\ Done(1) /\ Routed(1) /\ HasId(1)
    /\ Req(1).body.method = "tools/call/add"
    /\ HasError(1) /\ Error(1).message = "tools/call/add"

\* --------------------------------------------------------------------- C19

\* The registry of one category: the builder's until build, then the server's.
Registry(kind) ==
    LET owner == IF builder.self # None THEN Unwrap(builder.self) ELSE server
    IN CASE kind = "tool" -> owner.tools
         [] kind = "resource" -> owner.resources
         [] kind = "prompt" -> owner.prompts

\* The last registration of identifier id in its category.
LastRegistration(kind, id) ==
    LET at == {i \in DOMAIN builder.regs :
                  builder.regs[i].kind = kind /\ builder.regs[i].id = id}
    IN builder.regs[CHOOSE i \in at : \A j \in at : j <= i]

HandlersOf(entry) ==
    IF "handler" \in DOMAIN entry THEN {entry.handler}
    ELSE {entry.list_handler, entry.read_handler}

\* Each registry holds one entry per registered identifier, the entry of the
\* identifier's last registration; a call reaches the handler registered last.
C19_LastRegistrationWins ==
    /\ \A kind \in {"tool", "resource", "prompt"} :
          /\ DOMAIN Registry(kind) = RegisteredIds(kind)
          /\ \A id \in RegisteredIds(kind) :
                /\ HandlersOf(Registry(kind)[id]) = {LastRegistration(kind, id).handler}
                /\ Registry(kind)[id].meta =
                      LET meta == LastRegistration(kind, id).meta
                      IN CASE kind = "tool" -> [name |-> id, description |-> meta]
                           [] kind = "resource" -> [uri |-> id, name |-> meta]
                           [] kind = "prompt" -> [name |-> id, description |-> meta]
    /\ \A c \in Calls : \A i \in DOMAIN calls[c].invoked :
          LET h == calls[c].invoked[i]
              kind == IF h[1] \in {"list", "read"} THEN "resource" ELSE h[1]
          IN /\ h[2] \in RegisteredIds(kind)
             /\ h[3] = LastRegistration(kind, h[2]).handler

\* Registering again what was registered last leaves the registry as it is.
C19_Idempotent ==
    (/\ builder.regs # <<>>
     /\ builder'.regs = Append(builder.regs, builder.regs[Len(builder.regs)])) =>
        builder'.self = builder.self

\* C19: registration is an upsert: one entry per identifier, that of the last
\* registration, which is the one a call invokes; repeating a registration
\* changes nothing.
C19_Upsert == []C19_LastRegistrationWins /\ [][C19_Idempotent]_vars

\* Witness: the tool "add" was registered twice with different handlers and
\* a call of it has invoked the second.
C19_Witness ==
    /\ Len(builder.regs) >= 2
    /\ builder.regs[1] = Registration("tool", "add", "1")
    /\ builder.regs[2] = Registration("tool", "add", "2")
    /\ builder.self = None
    /\ DOMAIN server.tools = {"add"}
    /\ Done(1) /\ calls[1].invoked = <<<<"tool", "add", "handler 2">>>>

\* --------------------------------------------------------------------- C20

\* No call is, or was, an initialize.
NoInitialize ==
    \A d \in Calls : calls[d].req # None => Req(d).body.method # "initialize"

\* C20: no method needs a handshake.  A ping always succeeds with an empty
\* result; every structurally valid call is routed, and its outcome is the
\* one its method computes from the request, the server and what the
\* registered handlers return, whatever other calls (an initialize, accepted
\* or refused, among them) came before or run beside it: two calls with the
\* same request and the same handler results end the same.
C20_NoHandshake ==
    \A c \in Calls :
        (Done(c) /\ Routed(c)) =>
            /\ calls[c].env # None
            /\ Req(c).body.method = "ping" =>
                  /\ Computed(c) /\ Result(c) = [object |-> "{}"]
                  /\ Response(c).error = None
            /\ LET routed == route_request(Req(c).body, server, Unwrap(calls[c].env))
               IN /\ Computed(c) <=> routed.ok
                  /\ Computed(c) => Response(c) = routed.val
                  /\ ~Computed(c) => Http(c) = error_response(routed.err)
                  /\ calls[c].invoked = Invoked(routed)
            /\ \A d \in Calls :
                  (Done(d) /\ Req(d) = Req(c) /\ calls[d].env = calls[c].env) =>
                      /\ Http(d) = Http(c)
                      /\ calls[d].response = calls[c].response
                      /\ calls[d].invoked = calls[c].invoked

\* Witness: with no initialize ever sent, a tool call has invoked its handler
\* and returned a result, and a second call has begun.
C20_Witness ==
    /\ NoInitialize
    /\ Done(1) /\ Req(1).body.method = "tools/call"
    /\ calls[1].invoked # <<>> /\ Computed(1) /\ Direct(1)
    /\ calls[2].pc = "routing" /\ Req(2).body.method = "prompts/get"

\* --------------------------------------------------------------------- C21

\* The caller of call c named text/event-stream in its accept header.
PrefersStream(c) ==
    /\ Req(c).headers.accept # None
    /\ \E i \in DOMAIN Unwrap(Req(c).headers.accept) :
          Unwrap(Req(c).headers.accept)[i] = "text/event-stream"

\* The calls holding a position of the channel.
Publishers == {c \in Calls : calls[c].pos # 0}

\* A call that called send carries an id, prefers streaming and computed a
\* response; each value of the channel belongs to one call and each call
\* holds at most one.
C21_OnlyStreamedRequests ==
    /\ \A c \in Calls :
          (calls[c].sent # None \/ calls[c].pos # 0 \/ calls[c].pc = "counted") =>
              /\ Req(c).body.id # None
              /\ PrefersStream(c)
              /\ calls[c].response # None
    /\ \A c, d \in Publishers : calls[c].pos = calls[d].pos => c = d
    /\ Len(chan.log) = Cardinality(Publishers)
    /\ \A c \in Publishers : chan.log[calls[c].pos] = Unwrap(calls[c].response)

\* A step that changes the channel's values appends one value, the response
\* of one call that had not called send before and is done after it.
C21_OneSendPerCall ==
    chan'.log # chan.log =>
        \E c \in Calls :
            /\ calls[c].pc = "counted" /\ calls[c].sent = None
            /\ calls'[c].pc = "done" /\ calls'[c].sent # None
            /\ chan'.log = Append(chan.log, Unwrap(calls[c].response))
            /\ \A d \in Calls \ {c} : calls'[d] = calls[d]

\* C21: a call publishes at most once, and only a request with an id whose
\* caller prefers streaming and whose response was computed publishes; a
\* notification and a request without streaming preference never do.
C21_PublishAtMostOnce == []C21_OnlyStreamedRequests /\ [][C21_OneSendPerCall]_vars

\* Witness: a streaming-preferred notification and a plain request completed
\* next to a published request, on a stream that holds only the latter.
C21_Witness ==
    \E c, d, e \in Calls :
        /\ Done(c) /\ Req(c).body.id = None /\ PrefersStream(c) /\ Computed(c)
        /\ Done(d) /\ Req(d).body.id # None /\ ~PrefersStream(d) /\ Computed(d)
        /\ Done(e) /\ Published(e)
        /\ subs[1].state = "open" /\ subs[1].start = 0
        /\ Len(chan.log) = 1 /\ subs[1].got = <<1>>

\* --------------------------------------------------------------------- C22

\* Subscription s goes from open to closed in this step (the client left).
Closes(s) == subs[s].state = "open" /\ subs'[s].state = "closed"

\* C22: the step that closes a streaming connection removes one receiver
\* and changes nothing else: the channel's values, every call and every
\* other subscription stay as they are, every other open subscription
\* receives next exactly what it would have received, a publish in flight
\* can still be made, and a value sent now or later still reaches the
\* subscriptions that remain.
C22_CloseStep ==
    \A s \in Subs : Closes(s) =>
        /\ chan'.log = chan.log
        /\ receiver_count(chan') = receiver_count(chan) - 1
        /\ calls' = calls
        /\ \A t \in Subs \ {s} :
              /\ subs'[t] = subs[t]
              /\ subs[t].state = "open" =>
                    /\ recv_ready(chan', subs'[t].rx) = recv_ready(chan, subs[t].rx)
                    /\ recv_ready(chan, subs[t].rx) =>
                          recv(chan', subs'[t].rx) = recv(chan, subs[t].rx)
        /\ \A c \in Calls : calls[c].pc = "counted" =>
              /\ send_ready(chan', {subs'[t].rx : t \in {u \in Subs : subs'[u].state = "open"}})
              /\ (\E t \in Subs \ {s} : subs[t].state = "open") =>
                    LET sent == send(chan', Unwrap(calls[c].response))
                    IN /\ sent.result.ok
                       /\ sent.chan.log = Append(chan.log, Unwrap(calls[c].response))

C22_CloseHasNoOtherEffect == [][C22_CloseStep]_vars

\* Witness: a call that counted two subscriptions published to one (the
\* other closed while the publish was in flight), and the remaining
\* subscription has received that message.
C22_Witness ==
    \E c \in Calls :
        /\ Done(c) /\ calls[c].count = 2 /\ calls[c].sent = Some(Ok(1))
        /\ subs[1].state = "closed" /\ subs[2].state = "open"
        /\ EventsAt(2, calls[c].pos) # {}

\* --------------------------------------------------------------------- C23

\* The headers carry no bearer token, or an empty one.
NoBearer(headers) ==
    \/ headers.authorization = None
    \/ Unwrap(headers.authorization)[1] # "Bearer "
EmptyBearer(headers) ==
    /\ ~NoBearer(headers)
    /\ Unwrap(headers.authorization)[2] = ""
Unauthenticated(headers) == NoBearer(headers) \/ EmptyBearer(headers)

\* C23: with an auth check configured, a POST without a bearer token ends
\* with AuthenticationRequired (401) and one with an empty token with
\* AuthorizationFailed (403), whatever the message: the validation reports
\* nothing, the call is never routed, invokes no handler, computes no
\* response and publishes nothing; a GET so refused creates no subscription
\* (no receiver, no event).
C23_AuthShortCircuits ==
    server.oauth_config # None =>
        /\ \A c \in Calls :
              (calls[c].req # None /\ Unauthenticated(Req(c).headers)) =>
                  /\ Done(c)
                  /\ Http(c).status = IF NoBearer(Req(c).headers) THEN 401 ELSE 403
                  /\ HasError(c)
                  /\ Error(c).message =
                        IF NoBearer(Req(c).headers) THEN "Authentication required"
                        ELSE "Authorization failed: Invalid token"
                  /\ calls[c].env = None /\ calls[c].invoked = <<>>
                  /\ calls[c].response = None
                  /\ calls[c].sent = None /\ calls[c].pos = 0
        /\ \A s \in Subs :
              (subs[s].req # None /\ Unauthenticated(Unwrap(subs[s].req))) =>
                  /\ subs[s].state = "refused"
                  /\ subs[s].events = <<>>
        /\ receiver_count(chan) = Cardinality(OpenSubs)

\* Witness: a malformed tools/call without a token and a GET with an empty
\* token were both refused by a server with OAuth.
C23_Witness ==
    /\ server.oauth_config # None
    /\ Done(1) /\ NoBearer(Req(1).headers)
    /\ Req(1).body.jsonrpc = "1.0" /\ Req(1).body.method = "tools/call"
    /\ Http(1).status = 401
    /\ subs[1].state = "refused" /\ EmptyBearer(Unwrap(subs[1].req))
    /\ receiver_count(chan) = 0

\* --------------------------------------------------------------------- C24

\* A JSON-RPC response object carries exactly one of the members result and
\* error (a member is carried when it is written, a null result included).
ExactlyOne(json) == (json.result # None) # (json.error # None)

\* C24: every response the server produces -- the response route_request
\* computed, the body written to a caller (result or error path) and the
\* data of every streamed event -- carries exactly one of result and error.
C24_ResultXorError ==
    /\ \A c \in Calls :
          /\ calls[c].response # None => ExactlyOne(Response(c))
          /\ (calls[c].http # None /\ Http(c).body # None) =>
                ExactlyOne(Unwrap(Http(c).body))
    /\ \A s \in Subs : \A i \in DOMAIN subs[s].events :
          ExactlyOne(subs[s].events[i].data)
    /\ \A i \in DOMAIN chan.log : ExactlyOne(chan.log[i])

\* Witness: a resources/subscribe, whose result is JSON null, was streamed.
C24_Witness ==
    /\ Done(1) /\ Published(1) /\ Req(1).body.method = "resources/subscribe"
    /\ Len(subs[1].events) = 1
    /\ subs[1].events[1].data.result = Some(JsonNull)
    /\ subs[1].events[1].data.error = None

\* --------------------------------------------------------------------- C25

\* Call c is a tools/call that was routed and names a registered tool.
CallsRegisteredTool(c) ==
    /\ Routed(c)
    /\ Req(c).body.method = "tools/call"
    /\ Req(c).body.params # None
    /\ "name" \in DOMAIN Unwrap(Req(c).body.params)
    /\ Unwrap(Req(c).body.params).name \in DOMAIN server.tools

\* The argument map the request of call c supplies, empty when it has none.
Supplied(c) ==
    LET params == Unwrap(Req(c).body.params)
    IN IF "arguments" \in DOMAIN params THEN params.arguments ELSE {}

\* C25: a finished tools/call naming a registered tool has invoked that
\* tool's handler, and only it, with the supplied argument map (the empty map
\* when no arguments were supplied); when the handler returned a value, the
\* result is one text content item holding the stringified value, and the
\* result's error flag is unset.
C25_ToolCallWrapping ==
    \A c \in Calls :
       (Done(c) /\ CallsRegisteredTool(c)) =>
          LET name == Unwrap(Req(c).body.params).name
              returned == Unwrap(calls[c].env).tool
          IN /\ calls[c].invoked = <<<<"tool", name, server.tools[name].handler>>>>
             /\ calls[c].passed = <<Supplied(c)>>
             /\ returned.ok =>
                   /\ Computed(c)
                   /\ Result(c).content =
                         <<[type |-> "text", text |-> to_string(returned.val)]>>
                   /\ Result(c).isError = None
             /\ ~returned.ok => ~Computed(c)

\* Witness: a call with two arguments got the text {"result":2}; the witness
\* of the empty map is C25_WitnessNoArguments.
C25_Witness ==
    /\ Done(1) /\ CallsRegisteredTool(1)
    /\ calls[1].passed = <<{<<"a", 2>>, <<"b", 1>>}>>
    /\ Computed(1)
    /\ Result(1).content = <<[type |-> "text", text |-> "{\"result\":2}"]>>
    /\ Result(1).isError = None

\* A call without the member arguments had its handler called with the
\* empty map.
C25_WitnessNoArguments ==
    /\ Done(1) /\ CallsRegisteredTool(1)
    /\ "arguments" \notin DOMAIN Unwrap(Req(1).body.params)
    /\ calls[1].passed = <<{}>> /\ Computed(1)

\* --------------------------------------------------------------------- C26

IsList(c) == Routed(c) /\ Req(c).body.method = "resources/list"

\* The cursor the request of call c carries: a string member cursor of its
\* params, if there is one.
Cursor(c) ==
    LET params == Req(c).body.params
    IN IF params = None THEN None
       ELSE IF "cursor" \notin DOMAIN Unwrap(params) THEN None
       ELSE IF "string" \notin DOMAIN Unwrap(params).cursor THEN None
       ELSE Some(Unwrap(params).cursor.string)

\* What the list handlers awaited by call c returned, in invocation order.
Listings(c) ==
    [i \in DOMAIN calls[c].invoked |->
        Listing(calls[c].invoked[i][2],
                Unwrap(calls[c].env).list[calls[c].invoked[i][2]])]

\* The number of times descriptor d occurs in the sequence seq.
Occurrences(d, seq) == Cardinality({i \in DOMAIN seq : seq[i] = d})

\* C26: a finished resources/list has called every list handler it awaited
\* with the one cursor of the request; when none of them failed it awaited
\* the list handler of every registered provider, each once, its result
\* holds the concatenation of everything they returned (a descriptor returned
\* by two providers occurs twice), and the result's next cursor is absent,
\* also when a provider returned one.
C26_ListConcatenates ==
    \A c \in Calls :
       (Done(c) /\ IsList(c)) =>
          /\ \A i \in DOMAIN calls[c].passed : calls[c].passed[i] = Cursor(c)
          /\ Len(calls[c].passed) = Len(calls[c].invoked)
          /\ (\A p \in DOMAIN server.resources : Unwrap(calls[c].env).list[p] # "fail") =>
                /\ Len(calls[c].invoked) = Cardinality(DOMAIN server.resources)
                /\ \A p \in DOMAIN server.resources :
                      \E i \in DOMAIN calls[c].invoked :
                         calls[c].invoked[i] =
                            <<"list", p, server.resources[p].list_handler>>
                /\ Computed(c)
                /\ Result(c).resources =
                      Concat([i \in DOMAIN Listings(c) |-> Listings(c)[i].resources])
                /\ \A d \in {Descriptor(SharedUri)}
                         \cup {Descriptor(p) : p \in DOMAIN server.resources} :
                      Occurrences(d, Result(c).resources) =
                         Cardinality({i \in DOMAIN Listings(c) :
                            \E j \in DOMAIN Listings(c)[i].resources :
                               Listings(c)[i].resources[j] = d})
                /\ Result(c).nextCursor = None

\* Witness: two providers were asked with the cursor "c1", both returned the
\* shared descriptor and a next cursor; the descriptor is listed twice and
\* the result has no next cursor.
C26_Witness ==
    /\ Done(1) /\ IsList(1) /\ Computed(1)
    /\ calls[1].passed = <<Some("c1"), Some("c1")>>
    /\ \A i \in DOMAIN Listings(1) : Listings(1)[i].next_cursor = Some("page 2")
    /\ Occurrences(Descriptor(SharedUri), Result(1).resources) = 2
    /\ Len(Result(1).resources) = 4
    /\ Result(1).nextCursor = None

\* --------------------------------------------------------------------- C27

\* The transport status of each member of the error taxonomy.
StatusTable ==
    [ParseError |-> 400, InvalidRequest |-> 400, MethodNotFound |-> 404,
     InvalidParams |-> 400, InternalError |-> 500, ResourceNotFound |-> 404,
     ToolNotFound |-> 404, PromptNotFound |-> 404,
     AuthenticationRequired |-> 401, AuthorizationFailed |-> 403,
     SerializationError |-> 500, IoError |-> 500, JsonRpcError |-> 500]

\* C27: the code and the status of every error answer agree: code -32601 or
\* -32002 comes with status 404, code -32700 or -32602 with 400, code -32603
\* with 500; an error a handler raised is answered with the code and the
\* status of its taxonomy member, AuthenticationRequired with 401 and
\* AuthorizationFailed with 403, as is a call the auth check refused.
C27_CodeAndStatusAgree ==
    \A c \in Calls :
       (Done(c) /\ HasError(c)) =>
          /\ Error(c).code \in {-32601, -32002} => Http(c).status = 404
          /\ Error(c).code \in {-32700, -32602} => Http(c).status = 400
          /\ Error(c).code = -32603 => Http(c).status = 500
          /\ Http(c).status \in {400, 401, 403, 404, 500}
          /\ HandlerFailed(c) =>
                /\ Http(c).status = StatusTable[Raised(c).variant]
                /\ Raised(c).variant \in DOMAIN CodeTable =>
                      Error(c).code = CodeTable[Raised(c).variant]
                /\ Raised(c).variant \in {"SerializationError", "IoError",
                                          "JsonRpcError"} => Error(c).code = -32603
          /\ (server.oauth_config # None /\ NoBearer(Req(c).headers)) =>
                Http(c).status = 401
          /\ (server.oauth_config # None /\ EmptyBearer(Req(c).headers)) =>
                Http(c).status = 403

\* Witness: a tool handler raised PromptNotFound and the call was answered
\* with code -32601 and status 404.
C27_Witness ==
    /\ Done(1) /\ HandlerFailed(1)
    /\ Raised(1).variant = "PromptNotFound"
    /\ Error(1).code = -32601 /\ Http(1).status = 404

\* --------------------------------------------------------------------- C28

\* Subscription s was opened by a request that presented a Last-Event-ID.
Resumed(s) == subs[s].req # None /\ Unwrap(subs[s].req).last_event_id # None

\* Every event of a streaming connection was published after the connection
\* was opened, and two connections opened at the same point of the channel
\* receive the same events in the same order, whether or not one of them
\* presented a Last-Event-ID.
C28_OnlyLater ==
    /\ \A s \in Subs : \A i \in DOMAIN subs[s].got :
          /\ subs[s].got[i] > subs[s].start
          /\ subs[s].events[i].data = ToJson(chan.log[subs[s].got[i]])
    /\ \A s, t \in Subs :
          (subs[s].state # "none" /\ subs[t].state # "none"
           /\ subs[s].start = subs[t].start) =>
              \A i \in DOMAIN subs[s].events \cap DOMAIN subs[t].events :
                 /\ subs[s].events[i] = subs[t].events[i]
                 /\ subs[s].got[i] = subs[t].got[i]

\* Opening a connection gives it a receiver at the tail of the channel and
\* no event, whatever its headers, and publishes nothing.
C28_OpenStep ==
    \A s \in Subs :
       (subs[s].state = "none" /\ subs'[s].state = "open") =>
          /\ subs'[s].rx.next = Len(chan.log)
          /\ subs'[s].events = <<>>
          /\ chan'.log = chan.log

FailedAt(c, i) ==
    LET h == calls[c].invoked[i]
        env == Unwrap(calls[c].env)
    IN CASE h[1] = "tool" -> ~env.tool.ok
         [] h[1] = "prompt" -> ~env.prompt.ok
         [] h[1] = "list" -> env.list[h[2]] = "fail"
         [] h[1] = "read" -> env.read[h[2]] \in Failures
RaisedAt(c, i) ==
    LET h == calls[c].invoked[i]
        env == Unwrap(calls[c].env)
    IN CASE h[1] = "tool" -> env.tool.err
         [] h[1] = "prompt" -> env.prompt.err
         [] h[1] = "read" /\ env.read[h[2]] = "unknown" ->
               McpError("ResourceNotFound", Uri(c))
         [] OTHER -> Boom

\* Within one call no handler is awaited twice, and a handler that failed is
\* the last one awaited: the call is done with that handler's error and has
\* computed no response and published nothing.
C29_FailureIsTerminal ==
    \A c \in Calls :
       /\ \A i, j \in DOMAIN calls[c].invoked :
             calls[c].invoked[i] = calls[c].invoked[j] => i = j
       /\ \A i \in DOMAIN calls[c].invoked :
             FailedAt(c, i) =>
                /\ i = Len(calls[c].invoked)
                /\ Done(c) /\ ~Computed(c)
                /\ calls[c].sent = None
                /\ HasError(c)
                /\ Error(c) = to_jsonrpc_error(RaisedAt(c, i))
                /\ Http(c).status =
                      IF RaisedAt(c, i).variant = "ResourceNotFound" THEN 404 ELSE 500

\* Once a call has awaited its handlers it awaits none again: its record of
\* invocations and its outcome never change.
C29_NoSecondAttempt ==
    \A c \in Calls :
       (calls[c].env # None) =>
          /\ calls'[c].invoked = calls[c].invoked
          /\ calls'[c].env = calls[c].env
          /\ calls'[c].response = calls[c].response
          /\ Done(c) => calls'[c] = calls[c]

\* C29: no retry: within one call each registered handler is invoked at most
\* once, and a handler failure ends the call with that error, no further
\* handler being invoked for it.
C29_NoRetry == []C29_FailureIsTerminal /\ [][C29_NoSecondAttempt]_vars

\* Witness: of three providers the second one asked failed; the third was
\* never asked and the call ended with the internal error.
C29_Witness ==
    /\ builder.self = None /\ Cardinality(DOMAIN server.resources) = 3
    /\ Done(1) /\ Len(calls[1].invoked) = 2
    /\ ~FailedAt(1, 1) /\ FailedAt(1, 2)
    /\ HasError(1) /\ Error(1).code = -32603 /\ Error(1).message = "boom"

\* --------------------------------------------------------------------- C30

\* C30 (as claimed): every event yielded on a streaming connection carries
\* an event id, the event type "message" and, as data, the JSON encoding of
\* the published response it was read from.
C30_FrameHasIdAndType ==
    \A s \in Subs : \A i \in DOMAIN subs[s].events :
       /\ subs[s].events[i].id # None
       /\ subs[s].events[i].event = Some("message")
       /\ subs[s].events[i].data = ToJson(chan.log[subs[s].got[i]])

\* --------------------------------------------------------------------- C31

Cancelled(c) == calls[c].pc = "cancelled"

\* A cancelled call was suspended in a handler it had invoked, has no
\* response, wrote nothing to its caller and sent nothing; every value of
\* the channel was published by a call that ran to its end.
C31_CancelledIsSilent ==
    /\ \A c \in Calls :
          Cancelled(c) =>
             /\ calls[c].invoked # <<>>
             /\ calls[c].response = None /\ calls[c].http = None
             /\ calls[c].sent = None /\ calls[c].pos = 0
    /\ \A i \in DOMAIN chan.log :
          \E d \in Calls :
             /\ Done(d) /\ calls[d].pos = i /\ chan.log[i] = Response(d)

\* The step that cancels a call stops it while it awaits route_request and
\* changes nothing but that call: the channel, the subscriptions and the
\* other calls stay as they are.  Afterwards the call never moves again: it
\* invokes no further handler and the invocations it made stay made.
C31_CancelStep ==
    \A c \in Calls :
       /\ Cancelled(c) => calls'[c] = calls[c]
       /\ (~Cancelled(c) /\ calls'[c].pc = "cancelled") =>
             /\ calls[c].pc = "routing"
             /\ calls'[c].invoked # <<>>
             /\ chan' = chan /\ subs' = subs
             /\ \A d \in Calls \ {c} : calls'[d] = calls[d]

\* C31: cancelling a call while it is suspended in a handler stops it there:
\* it produces no response, publishes nothing and invokes no further
\* handler, the invocations already made are not undone, and the other calls
\* and the subscriptions are unaffected.
C31_Cancellation == []C31_CancelledIsSilent /\ [][C31_CancelStep]_vars

\* Witness: a resources/read was cancelled in the first of its two
\* providers; the other call was published and the open stream received it.
C31_Witness ==
    /\ Cancelled(1) /\ Req(1).body.method = "resources/read"
    /\ Len(calls[1].invoked) = 1
    /\ Done(2) /\ Published(2)
    /\ subs[1].state = "open" /\ subs[1].got = <<calls[2].pos>>

\* --------------------------------------------------------------------- C32

\* Call c is a routed message without id that names a registered tool, a
\* registered prompt or a resource to read.
NotifiesHandler(c) ==
    /\ Routed(c) /\ Req(c).body.id = None
    /\ Req(c).body.params # None
    /\ LET method == Req(c).body.method
           params == Unwrap(Req(c).body.params)
       IN \/ method = "tools/call" /\ "name" \in DOMAIN params
                /\ params.name \in DOMAIN server.tools
          \/ method = "prompts/get" /\ "name" \in DOMAIN params
                /\ params.name \in DOMAIN server.prompts
          \/ method = "resources/read" /\ "uri" \in DOMAIN params
                /\ DOMAIN server.resources # {}

\* The handlers such a message reaches: the named tool or prompt, or the
\* read handler of every provider.
Reached(c) ==
    LET method == Req(c).body.method
        params == Unwrap(Req(c).body.params)
    IN CASE method = "tools/call" ->
               {<<"tool", params.name, server.tools[params.name].handler>>}
         [] method = "prompts/get" ->
               {<<"prompt", params.name, server.prompts[params.name].handler>>}
         [] method = "resources/read" ->
               {<<"read", p, server.resources[p].read_handler>> :
                   p \in DOMAIN server.resources}

\* C32: a finished tools/call, prompts/get or resources/read without id has
\* invoked its registered handler, each exactly once, with the arguments of
\* the message; when the handler succeeded, the result was computed and only
\* its delivery is suppressed: the caller gets 204 without a body and
\* nothing is published.
C32_NotificationIsProcessed ==
    \A c \in Calls :
       (Done(c) /\ NotifiesHandler(c)) =>
          /\ {calls[c].invoked[i] : i \in DOMAIN calls[c].invoked} = Reached(c)
          /\ Len(calls[c].invoked) = Cardinality(Reached(c))
          /\ Len(calls[c].passed) = Len(calls[c].invoked)
          /\ Computed(c) =>
                /\ Response(c).result # None
                /\ Http(c) = HttpResponse(204, None)
                /\ calls[c].sent = None /\ calls[c].pos = 0

\* Witness: a tools/call without id, sent with arguments while a stream is
\* open, has invoked the handler with them and was answered 204.
C32_Witness ==
    /\ Done(1) /\ NotifiesHandler(1) /\ Req(1).body.method = "tools/call"
    /\ calls[1].invoked = <<<<"tool", "add", "handler 1">>>>
    /\ calls[1].passed = <<{<<"a", 2>>, <<"b", 1>>}>>
    /\ Computed(1)
    /\ Result(1).content = <<[type |-> "text", text |-> "{\"result\":2}"]>>
    /\ Http(1) = HttpResponse(204, None)
    /\ subs[1].state = "open" /\ chan.log = <<>>

\* --------------------------------------------------------------------- C33

\* C33: every value of the channel and every event of every stream is a
\* success response (result present, error absent) carrying the id of the
\* request of the call that published it; a streaming-preferred request that
\* failed was answered directly with the error and an error status and sent
\* nothing, whatever the number of subscriptions at the time.
C33_OnlySuccessesStreamed ==
    /\ \A i \in DOMAIN chan.log :
          /\ chan.log[i].result # None /\ chan.log[i].error = None
          /\ \E c \in Calls :
                /\ calls[c].pos = i
                /\ Req(c).body.id # None /\ chan.log[i].id = Req(c).body.id
    /\ \A s \in Subs : \A i \in DOMAIN subs[s].events :
          /\ subs[s].events[i].data.result # None
          /\ subs[s].events[i].data.error = None
          /\ subs[s].events[i].data.id # None
    /\ \A c \in Calls :
          (Done(c) /\ PrefersStream(c) /\ ~Computed(c)) =>
             /\ HasError(c) /\ Unwrap(Http(c).body).result = None
             /\ Http(c).status \in {400, 401, 403, 404, 500}
             /\ calls[c].sent = None /\ calls[c].pos = 0

\* Witness: with two streams open, a streaming-preferred tools/call failed:
\* it was answered 500 with the error and the channel stayed empty.
C33_Witness ==
    /\ Cardinality(OpenSubs) = 2
    /\ Done(1) /\ PrefersStream(1) /\ HasId(1) /\ ~Computed(1)
    /\ calls[1].invoked # <<>>
    /\ Http(1).status = 500 /\ HasError(1) /\ Error(1).message = "boom"
    /\ chan.log = <<>>
    /\ \A s \in Subs : subs[s].start = 0

\* --------------------------------------------------------------------- C34

\* The four ways a call can end.
EndsDirect(c) == Http(c).status = 200 /\ Http(c).body # None
EndsAccepted(c) == Http(c) = HttpResponse(202, None)
EndsNoContent(c) == Http(c) = HttpResponse(204, None)
EndsError(c) == Http(c).status \in {400, 401, 403, 404, 500} /\ HasError(c)

\* C34 (as claimed): the computed response of a finished request went down
\* exactly one path: it was published and the caller got the empty
\* "accepted", or it was written directly to the caller, never both and
\* never neither; and every finished call ended in exactly one of the four
\* ways.
C34_ExactlyOnePath ==
    \A c \in Calls :
       Done(c) =>
          /\ Cardinality({k \in 1..4 :
                CASE k = 1 -> EndsDirect(c) [] k = 2 -> EndsAccepted(c)
                  [] k = 3 -> EndsNoContent(c) [] k = 4 -> EndsError(c)}) = 1
          /\ (Computed(c) /\ HasId(c)) =>
                \/ Published(c) /\ EndsAccepted(c) /\ ~Direct(c)
                \/ Direct(c) /\ ~Published(c) /\ calls[c].pos = 0

\* --------------------------------------------------------------------- C35

\* What the providers' handlers return to call c, a resources/read or a
\* resources/list, and the order in which the registry iterates.
Outcomes(c) ==
    IF Req(c).body.method = "resources/read"
    THEN Unwrap(calls[c].env).read ELSE Unwrap(calls[c].env).list
Order(c) == Unwrap(calls[c].env).order

\* The positions, in iteration order, of the providers whose handler
\* returns an error, and the first of them.
FailingAt(c) == {i \in DOMAIN Order(c) : Outcomes(c)[Order(c)[i]] \in {"fail", "unknown"}}
FirstFailingAt(c) == CHOOSE i \in FailingAt(c) : \A j \in FailingAt(c) : i <= j

\* C35: a finished resources/read or resources/list in which a provider's
\* handler returns an error fails with the error of the first such provider
\* in iteration order: the providers after it are not invoked, no result is
\* computed and nothing collected from the providers before it is returned,
\* also when one of them, or a later one, recognises the URI.
C35_ProviderErrorFailsCall ==
    \A c \in Calls :
       (Done(c) /\ Routed(c) /\ (IsRead(c) \/ IsList(c)) /\ FailingAt(c) # {}) =>
          LET f == FirstFailingAt(c)
              kind == IF IsRead(c) THEN "read" ELSE "list"
          IN /\ Len(calls[c].invoked) = f
             /\ \A i \in 1..f :
                   /\ calls[c].invoked[i][1] = kind
                   /\ calls[c].invoked[i][2] = Order(c)[i]
             /\ ~Computed(c)
             /\ HasError(c) /\ Unwrap(Http(c).body).result = None
             /\ IF Outcomes(c)[Order(c)[f]] = "unknown"
                THEN /\ Error(c).code = -32002
                     /\ Error(c).data = Some([uri |-> Uri(c)])
                     /\ Http(c).status = 404
                ELSE /\ Error(c).code = -32603 /\ Error(c).message = "boom"
                     /\ Http(c).status = 500

\* Witness: of three providers the first and the third recognise the URI and
\* the second rejects it: the call failed with ResourceNotFound, the third
\* was never asked, and the contents of the first were not returned.
C35_Witness ==
    /\ builder.self = None /\ Cardinality(DOMAIN server.resources) = 3
    /\ Done(1) /\ IsRead(1)
    /\ Outcomes(1)[Order(1)[1]] = "found"
    /\ Outcomes(1)[Order(1)[2]] = "unknown"
    /\ Outcomes(1)[Order(1)[3]] = "found"
    /\ Len(calls[1].invoked) = 2
    /\ HasError(1) /\ Error(1).code = -32002 /\ Http(1).status = 404

\* --------------------------------------------------------------------- C36

\* Subscription s is more than the channel's capacity behind.
Lagged(s) ==
    subs[s].state = "open" /\ Len(chan.log) - subs[s].rx.next > Capacity

\* A stream that has ended is not counted by the channel, and every stream
\* has read the channel without a gap from where it subscribed: one that is
\* open and has nothing left to read has every message published since.
C36_OthersReceiveAll ==
    /\ receiver_count(chan) = Cardinality(OpenSubs)
    /\ \A s \in Subs :
          /\ \A i \in DOMAIN subs[s].got : subs[s].got[i] = subs[s].start + i
          /\ CaughtUp(s) => Len(subs[s].got) = Len(chan.log) - subs[s].start

\* A lagged stream yields nothing more and its next read ends it: the
\* receiver leaves the channel's count and nothing else changes.  An ended
\* stream never changes again, whatever is published afterwards.
C36_LagStep ==
    \A s \in Subs :
       /\ Lagged(s) =>
             /\ subs'[s].events = subs[s].events
             /\ subs'[s].rx # subs[s].rx => subs'[s].state = "ended"
       /\ (subs[s].state = "open" /\ subs'[s].state = "ended") =>
             /\ Lagged(s)
             /\ receiver_count(chan') = receiver_count(chan) - 1
             /\ chan'.log = chan.log
             /\ \A t \in Subs \ {s} : subs'[t] = subs[t]
             /\ calls' = calls
       /\ subs[s].state = "ended" => subs'[s] = subs[s]

\* C36: once a subscriber has lagged its stream ends: it receives nothing
\* published afterwards, its receiver is removed from the channel's count,
\* and the other subscribers keep receiving every message.
C36_LaggedStreamEnds == []C36_OthersReceiveAll /\ [][C36_LagStep]_vars

\* Witness: the first stream read nothing, ended when Capacity + 1 messages
\* had been published, and got nothing of the one published after that; the
\* second stream received all of them.
C36_Witness ==
    /\ subs[1].state = "ended" /\ subs[1].events = <<>>
    /\ subs[1].rx.next = 1
    /\ Len(chan.log) = Capacity + 2
    /\ subs[2].state = "open" /\ subs[2].start = 0
    /\ Len(subs[2].got) = Capacity + 2
    /\ receiver_count(chan) = 1

\* --------------------------------------------------------------------- C37

\* The streaming connections that were opened and have neither been closed
\* by their client nor ended.
Connected == {s \in Subs : subs[s].state \notin {"none", "refused", "closed", "ended"}}

\* The subscriber count equals the number of connected streams; a refused
\* open and a closed or ended stream are not among them.
C37_CountIsConnected ==
    /\ receiver_count(chan) = Cardinality(Connected)
    /\ \A s \in Connected : subs[s].state = "open"

\* The count the fallback decision reads is that number, and the steps that
\* refuse, close or end a stream leave no receiver behind.
C37_CountStep ==
    /\ \A c \in Calls :
          (calls[c].pc = "routing" /\ calls'[c].pc = "counted") =>
             /\ calls'[c].count = Cardinality(Connected)
             /\ calls'[c].count > 0
    /\ \A s \in Subs :
          /\ (subs[s].state = "none" /\ subs'[s].state = "refused") =>
                receiver_count(chan') = receiver_count(chan)
          /\ (subs[s].state = "none" /\ subs'[s].state = "open") =>
                receiver_count(chan') = receiver_count(chan) + 1
          /\ (subs[s].state = "open" /\ subs'[s].state \in {"closed", "ended"}) =>
                receiver_count(chan') = receiver_count(chan) - 1

\* C37: in every reachable state the channel's subscriber count, which the
\* fallback decision reads, is the number of streaming connections opened
\* and not yet closed or terminated; a refused open and a closed connection
\* leave no subscription counted.
C37_SubscriberCount == []C37_CountIsConnected /\ [][C37_CountStep]_vars

\* Witness: one open was refused, the other stream was opened and closed,
\* and a call then read the count 0 and answered directly.
C37_Witness ==
    /\ subs[1].state = "refused" /\ subs[2].state = "closed"
    /\ receiver_count(chan) = 0
    /\ Done(1) /\ Computed(1) /\ Direct(1) /\ calls[1].count = 0
    /\ Done(2) /\ Published(2) /\ calls[2].count = 1

\* --------------------------------------------------------------------- C38

\* The request of call c passes the auth check: none is configured, or it
\* carries a non-empty bearer token.
Authenticated(c) ==
    server.oauth_config = None \/ ~Unauthenticated(Req(c).headers)

\* C38: the checks of a received message run in the order authentication,
\* structural validation, routing.  An unauthenticated message fails with
\* the authentication error also when it is structurally invalid; an
\* authenticated invalid message fails with the validation error also when
\* its method is unknown, never with MethodNotFound, and is never routed;
\* only a valid message with an unknown method fails with MethodNotFound.
C38_CheckOrder ==
    \A c \in Calls :
       calls[c].req # None =>
          /\ ~Authenticated(c) =>
                /\ Done(c) /\ HasError(c)
                /\ Http(c).status = IF NoBearer(Req(c).headers) THEN 401 ELSE 403
                /\ Error(c).message =
                      IF NoBearer(Req(c).headers) THEN "Authentication required"
                      ELSE "Authorization failed: Invalid token"
          /\ (Authenticated(c) /\ Malformed(c)) =>
                /\ Done(c) /\ HasError(c)
                /\ Error(c).message =
                      IF Req(c).body.jsonrpc # "2.0" THEN "Invalid JSON-RPC version"
                      ELSE "Method cannot be empty"
                /\ Error(c).code # -32601 /\ Http(c).status # 404
                /\ calls[c].env = None /\ calls[c].invoked = <<>>
          /\ (Authenticated(c) /\ ~Malformed(c) /\ Done(c)
              /\ Req(c).body.method \notin Recognized) =>
                /\ HasError(c) /\ Error(c).code = -32601 /\ Http(c).status = 404
                /\ Error(c).message = Req(c).body.method

\* Witness: on a server with OAuth, a message without token, of version 1.0
\* and with an unknown method, failed with the authentication error; the
\* witness of the second pair of checks is C38_WitnessValidation.
C38_Witness ==
    /\ server.oauth_config # None
    /\ Done(1) /\ NoBearer(Req(1).headers)
    /\ Req(1).body.jsonrpc = "1.0" /\ Req(1).body.method = "nope"
    /\ Http(1).status = 401 /\ Error(1).message = "Authentication required"

\* An authenticated message of version 1.0 with an unknown method failed
\* with the validation error.
C38_WitnessValidation ==
    /\ server.oauth_config # None
    /\ Done(1) /\ Authenticated(1)
    /\ Req(1).body.jsonrpc = "1.0" /\ Req(1).body.method = "nope"
    /\ HasError(1) /\ Error(1).message = "Invalid JSON-RPC version"

\* --------------------------------------------------------------------- C39

\* The members each method requires in its params.
Required ==
    [initialize |-> {"protocolVersion", "capabilities", "clientInfo"}] @@
    ("resources/read" :> {"uri"}) @@ ("tools/call" :> {"name"}) @@
    ("prompts/get" :> {"name"}) @@ ("logging/setLevel" :> {"level"})

\* The params of call c are missing or malformed for its method.
BadParams(c) ==
    LET body == Req(c).body
    IN \/ body.params = None
       \/ ~(Required[body.method] \subseteq DOMAIN Unwrap(body.params))
       \/ /\ body.method = "logging/setLevel"
          /\ Unwrap(body.params).level \notin {"debug", "info", "warning", "error"}

\* C39: a routed initialize, resources/read, tools/call, prompts/get or
\* logging/setLevel whose params are missing or malformed fails with
\* InvalidParams (-32602, status 400): no handler is invoked and no registry
\* miss is reported.  A routed resources/list never fails with
\* InvalidParams: with missing or malformed params it asks its providers
\* with no cursor.
C39_InvalidParamsFirst ==
    \A c \in Calls :
       (Done(c) /\ Routed(c)) =>
          /\ (Req(c).body.method \in DOMAIN Required /\ BadParams(c)) =>
                /\ HasError(c) /\ ~Computed(c)
                /\ Error(c).code = -32602 /\ Http(c).status = 400
                /\ Error(c).data = None
                /\ calls[c].invoked = <<>> /\ calls[c].passed = <<>>
          /\ Req(c).body.method = "resources/list" =>
                /\ HasError(c) => Error(c).code # -32602
                /\ Len(calls[c].invoked) >= 1
                /\ \A i \in DOMAIN calls[c].passed : calls[c].passed[i] = Cursor(c)
                /\ (\A p \in DOMAIN server.resources :
                       Unwrap(calls[c].env).list[p] # "fail") => Computed(c)

\* Witness: a tools/call without params failed with InvalidParams; the
\* witness of the tolerant resources/list is C39_WitnessList.
C39_Witness ==
    /\ Done(1) /\ Routed(1)
    /\ Req(1).body.method = "tools/call" /\ Req(1).body.params = None
    /\ HasError(1) /\ Error(1).code = -32602
    /\ Error(1).message = "Invalid params: missing field"
    /\ calls[1].invoked = <<>>

\* A resources/list whose cursor is a number asked its provider with no
\* cursor and succeeded.
C39_WitnessList ==
    /\ Done(1) /\ Routed(1) /\ Req(1).body.method = "resources/list"
    /\ Req(1).body.params = Some([cursor |-> [number |-> 5]])
    /\ calls[1].passed = <<None>> /\ Computed(1)

====
